---------------------------- MODULE Spec2Model ----------------------------
(***************************************************************************)
(* Model of excel-grade-entry.                                             *)
(*                                                                         *)
(*  - Spec      : one GradeTable session (src/src/components/              *)
(*                GradeTable.tsx): the grade store, the in-progress edit,  *)
(*                the edit history with its cursor, the two localStorage   *)
(*                keys the component reads and writes, and the export.     *)
(*  - SpecInfer : the structure inferrer (detectHeaders and                *)
(*                enhanceHeaderMappingForEmptySheet of the page module)    *)
(*                applied to bounded lists of distinct header strings.     *)
(*                                                                         *)
(* JavaScript values are modelled as records [k, n, s]: k is the type tag  *)
(* ("num", "str", "undef", "nan"), n the number, s the characters of the   *)
(* string (a sequence of one-character strings), so that === is record     *)
(* equality and conversions (parseFloat, toString, ||) are computed.       *)
(* EditHistoryEntry.timestamp (new Date()) is not modelled.                *)
(***************************************************************************)
EXTENDS Integers, Sequences, FiniteSets, TLC

VARIABLES
    students,             \* props.students: the rows of the displayed sheet
    mapping,              \* props.mapping: the confirmed header mapping
    grades,               \* useState grades: studentId -> column -> value
    editingCell,          \* useState editingCell: NoCell or [studentId, column]
    tempGrade,            \* useState tempGrade: the text in the input
    editHistory,          \* useState editHistory
    currentHistoryIndex,  \* useState currentHistoryIndex
    lsGrades,             \* localStorage "gradeScribeGrades"
    lsHistory,            \* localStorage "gradeScribeEditHistory"
    toast,                \* what the last handler showed: its toast, or the
                          \* uncaught error, or "" when it showed nothing
    onlyCommits,          \* no undo / redo / jump has run in this behaviour
    nCommits,             \* number of history entries appended in this behaviour
    headers,              \* argument of the structure inferrer
    inferred,             \* result of the structure inferrer
    scan,                 \* the worksheet given to the grid readers and
                          \* what they returned
    page                  \* the state of the page (Index): the upload in
                          \* progress, the shown tab, excelData,
                          \* mappingConfirmed, activeStep, its last toast

vars == <<students, mapping, grades, editingCell, tempGrade, editHistory,
          currentHistoryIndex, lsGrades, lsHistory, toast,
          onlyCommits, nCommits, headers, inferred, page, scan>>

-----------------------------------------------------------------------------
(* Bounds                                                                  *)

\* history entries appended per behaviour
MaxCommits == 2

\* in SpecCap, whose histories are HistoryCap long, undo, redo and jump are
\* explored while the cursor stays within this many entries of either end
CursorWindow == 1

\* history entries appended per behaviour of SpecCap
CapCommits == 1

\* longest header list given to the structure inferrer
MaxHeaders == 4

\* history entries appended per behaviour of SpecSheets
SheetCommits == 1

\* columns of the worksheets given to the grid readers
GridColumns == 2

\* most rows of such a worksheet
MaxRows == 3

\* highest index of the first row of such a worksheet
MaxStart == 1

-----------------------------------------------------------------------------
(* JavaScript values                                                       *)

Num(i) == [k |-> "num", n |-> i, s |-> <<>>]

Str(cs) == [k |-> "str", n |-> 0, s |-> cs]

Undefined == [k |-> "undef", n |-> 0, s |-> <<>>]

NaN == [k |-> "nan", n |-> 0, s |-> <<>>]

EmptyString == Str(<<>>)

Null == [k |-> "null", n |-> 0, s |-> <<>>]

\* ToBoolean: undefined, NaN, 0 and "" are falsy
Truthy(v) ==
    CASE v.k = "num" -> v.n # 0
      [] v.k = "str" -> v.s # <<>>
      [] OTHER -> FALSE

\* a || b
Or(a, b) == IF Truthy(a) THEN a ELSE b

Digits == <<"0", "1", "2", "3", "4", "5", "6", "7", "8", "9">>

IsDigit(c) == \E d \in 1..10 : Digits[d] = c

DigitValue(c) == (CHOOSE d \in 1..10 : Digits[d] = c) - 1

\* length of the longest prefix of cs made of digits
RECURSIVE DigitPrefixLen(_)
DigitPrefixLen(cs) ==
    IF cs = <<>> \/ ~IsDigit(Head(cs)) THEN 0
    ELSE 1 + DigitPrefixLen(Tail(cs))

RECURSIVE DigitsToNat(_, _)
DigitsToNat(cs, acc) ==
    IF cs = <<>> THEN acc
    ELSE DigitsToNat(Tail(cs), 10 * acc + DigitValue(Head(cs)))

\* parseFloat on texts of digits and letters: the value of the leading
\* digits, NaN when the text does not start with a digit
parseFloat(cs) ==
    LET p == DigitPrefixLen(cs)
    IN  IF p = 0 THEN NaN ELSE Num(DigitsToNat(SubSeq(cs, 1, p), 0))

RECURSIVE NatToDigits(_)
NatToDigits(i) ==
    IF i < 10 THEN <<Digits[i + 1]>>
    ELSE NatToDigits(i \div 10) \o <<Digits[(i % 10) + 1]>>

\* value.toString() for the values a grade cell can hold
toString(v) == IF v.k = "num" THEN NatToDigits(v.n) ELSE v.s

-----------------------------------------------------------------------------
(* The tables shown and the texts a user types                             *)

\* EditHistory cap (newHistory.length > 50, slice(-50))
HistoryCap == 50

Columns == {"g1", "g2"}

\* one row with a primary and an additional grade column; the row has no
\* "g2" key (sheet_to_json leaves empty cells out)
TableA ==
    [students |->
        << [id |-> "s1", name |-> "n1",
            cells |-> [g1 |-> Num(85), g2 |-> Undefined]] >>,
     mapping |->
        [id |-> "id", name |-> "name", grade |-> "g1",
         gradeColumns |-> <<"g2">>]]

Tables == {TableA}

\* texts typed into the grade input
Texts == { <<>>, <<"0">>, <<"9", "0">>, <<"a", "b">> }

Min(a, b) == IF a < b THEN a ELSE b

SeqToSet(q) == {q[i] : i \in 1..Len(q)}

\* only the primary grade column
getPrimaryGradeColumn(m) ==
    SelectSeq(<<m.grade>>, LAMBDA c : c # "")

\* getAllGradeColumns: [mapping.grade, ...mapping.gradeColumns].filter(Boolean)
getAllGradeColumns(m) ==
    SelectSeq(<<m.grade>> \o m.gradeColumns, LAMBDA c : c # "")

StudentIds(studs) == {studs[i].id : i \in 1..Len(studs)}

\* the last row with the identifier (object keys are overwritten in order)
RowOf(studs, id) ==
    studs[CHOOSE i \in 1..Len(studs) :
            /\ studs[i].id = id
            /\ \A j \in (i + 1)..Len(studs) : studs[j].id # id]

\* students.find((s) => s[mapping.id] === studentId)
FindStudent(studs, id) ==
    studs[CHOOSE i \in 1..Len(studs) :
            /\ studs[i].id = id
            /\ \A j \in 1..(i - 1) : studs[j].id # id]

-----------------------------------------------------------------------------
(* GradeStore: studentId -> column -> value; Undefined is an absent key    *)

NoGrades == [id \in {} |-> [c \in Columns |-> Undefined]]

\* grades[studentId]?.[column]
Get(g, id, col) == IF id \in DOMAIN g THEN g[id][col] ELSE Undefined

\* { ...prev, [studentId]: { ...prev[studentId], [column]: value } }
Put(g, id, col, v) ==
    [i \in DOMAIN g \cup {id} |->
        [c \in Columns |->
            IF i = id /\ c = col THEN v ELSE Get(g, i, c)]]

\* JSON.parse(JSON.stringify(v)) of one value: undefined properties are
\* dropped, NaN becomes null, finite numbers and strings are kept
JsonValue(v) ==
    CASE v.k = "undef" -> Undefined
      [] v.k = "nan" -> Null
      [] OTHER -> v

JsonGrades(g) ==
    [i \in DOMAIN g |-> [c \in Columns |-> JsonValue(g[i][c])]]

JsonEntry(e) ==
    [studentId |-> e.studentId, column |-> e.column,
     oldValue |-> JsonValue(e.oldValue), newValue |-> JsonValue(e.newValue),
     studentName |-> e.studentName]

JsonHistory(h) == [i \in 1..Len(h) |-> JsonEntry(h[i])]

\* a seed that takes the row values only
SeedGradesRowsOnly(studs, m, saved) ==
    LET cols == SeqToSet(getAllGradeColumns(m))
    IN  [id \in StudentIds(studs) |->
            [c \in Columns |->
                IF c \in cols THEN RowOf(studs, id).cells[c]
                ELSE Undefined]]

\* the seed effect: row values of the mapped grade columns, then the
\* persisted grades of the same identifiers spread over them
SeedGrades(studs, m, saved) ==
    LET cols == SeqToSet(getAllGradeColumns(m))
        initial == [id \in StudentIds(studs) |->
                      [c \in Columns |->
                          IF c \in cols THEN RowOf(studs, id).cells[c]
                          ELSE Undefined]]
    IN  [id \in DOMAIN initial |->
            [c \in Columns |->
                IF id \in DOMAIN saved /\ saved[id][c] # Undefined
                THEN saved[id][c]
                ELSE initial[id][c]]]

\* the save-grades effect: written only when the store has keys
SaveGradesEffect(g, saved) ==
    IF DOMAIN g # {} THEN JsonGrades(g) ELSE saved

\* the save-history effect: written only when the history is not empty
SaveHistoryEffect(h, saved) ==
    IF Len(h) > 0 THEN JsonHistory(h) ELSE saved

-----------------------------------------------------------------------------
(* Handlers of the grade table, as functions of the state they read        *)

\* editingCell === null
NoCell == [studentId |-> "", column |-> ""]

\* an append that keeps the entries after the cursor
addToEditHistoryNoCut(h, c, studs, m, id, col, old, new) ==
    [editHistory |->
         h \o <<[studentId |-> id, column |-> col,
                 oldValue |-> old, newValue |-> new,
                 studentName |-> "Unknown"]>>,
     currentHistoryIndex |-> Min(c + 1, Len(h))]

\* addToEditHistory: both state updaters; h and c are the editHistory and
\* currentHistoryIndex of the render the handler closes over
addToEditHistory(h, c, studs, m, id, col, old, new) ==
    LET newEntry ==
            [studentId |-> id, column |-> col,
             oldValue |-> old, newValue |-> new,
             studentName |->
                 IF id \in StudentIds(studs)
                 THEN FindStudent(studs, id).name ELSE "Unknown"]
        newHistory == SubSeq(h, 1, Min(c + 1, Len(h))) \o <<newEntry>>
    IN  [editHistory |->
             IF Len(newHistory) > HistoryCap
             THEN SubSeq(newHistory, Len(newHistory) - HistoryCap + 1,
                         Len(newHistory))
             ELSE newHistory,
         currentHistoryIndex |-> Min(c + 1, Len(h))]

\* a validation that lets every text through
validateGradeAcceptsAll(value) == TRUE

\* validateGrade
validateGrade(value) ==
    IF value = <<>> THEN TRUE
    ELSE parseFloat(value) # NaN

\* saveGrade(studentId, column) with the text tempGrade: the state it
\* leaves, the toast it shows and whether it appended a history entry
saveGrade(g, h, c, cell, studs, m, id, col, text) ==
    LET oldValue == Or(Get(g, id, col), EmptyString)
        newValue == IF text = <<>> THEN EmptyString ELSE parseFloat(text)
        added == addToEditHistory(h, c, studs, m, id, col, oldValue, newValue)
    IN  IF ~validateGrade(text)
        THEN [grades |-> g, editHistory |-> h, currentHistoryIndex |-> c,
              editingCell |-> cell, toast |-> "Invalid Grade",
              appended |-> FALSE]
        ELSE IF oldValue = newValue
        THEN [grades |-> g, editHistory |-> h, currentHistoryIndex |-> c,
              editingCell |-> NoCell, toast |-> "",
              appended |-> FALSE]
        ELSE [grades |-> Put(g, id, col, newValue),
              editHistory |-> added.editHistory,
              currentHistoryIndex |-> added.currentHistoryIndex,
              editingCell |-> NoCell, toast |-> "Grade Updated",
              appended |-> TRUE]

\* grades[studentId]?.[column]?.toString() || ""
EditText(g, id, col) ==
    LET v == Get(g, id, col)
    IN  IF v = Undefined THEN <<>> ELSE toString(v)

\* handleUndo: editHistory[currentHistoryIndex] is destructured, which
\* throws when the index is past the last entry
handleUndo(g, h, c) ==
    IF c >= 0
    THEN IF c + 1 > Len(h)
         THEN [grades |-> g, currentHistoryIndex |-> c,
               toast |-> "Uncaught TypeError"]
         ELSE [grades |-> Put(g, h[c + 1].studentId, h[c + 1].column,
                              h[c + 1].oldValue),
               currentHistoryIndex |-> IF c > 0 THEN c - 1 ELSE -1,
               toast |-> "Undo: Restored"]
    ELSE [grades |-> g, currentHistoryIndex |-> c,
          toast |-> "Undo: No more actions to undo"]

\* handleRedo
handleRedo(g, h, c) ==
    IF c < Len(h) - 1
    THEN [grades |-> Put(g, h[c + 2].studentId, h[c + 2].column,
                         h[c + 2].newValue),
          currentHistoryIndex |-> Min(c + 1, Len(h) - 1),
          toast |-> "Redo: Re-applied"]
    ELSE [grades |-> g, currentHistoryIndex |-> c,
          toast |-> "Redo: No more actions to redo"]

\* the reset loop of jumpToHistoryPoint: every mapped grade column of every
\* row is set to student[column] || ""
ResetToSheet(g, studs, m) ==
    LET cols == SeqToSet(getAllGradeColumns(m))
    IN  [i \in DOMAIN g \cup StudentIds(studs) |->
            [col \in Columns |->
                IF i \in StudentIds(studs) /\ col \in cols
                THEN Or(RowOf(studs, i).cells[col], EmptyString)
                ELSE Get(g, i, col)]]

\* the replay loop of jumpToHistoryPoint over entries 0..k-1: each cell
\* ends with the newValue of the last of those entries that names it
ApplyEntries(g, h, k) ==
    [i \in DOMAIN g \cup {h[j].studentId : j \in 1..k} |->
        [col \in Columns |->
            LET hits == {j \in 1..k :
                            h[j].studentId = i /\ h[j].column = col}
            IN  IF hits = {} THEN Get(g, i, col)
                ELSE h[CHOOSE j \in hits : \A j2 \in hits : j2 <= j].newValue]]

\* jumpToHistoryPoint(index)
jumpToHistoryPoint(g, h, studs, m, index) ==
    [grades |-> ApplyEntries(ResetToSheet(g, studs, m), h, index + 1),
     currentHistoryIndex |-> index,
     toast |-> "History Jump"]

\* getExportData
getExportData(g, studs, m) ==
    LET gradeColumns == getAllGradeColumns(m)
    IN  IF Len(studs) > 0
        THEN [r \in 1..Len(studs) |->
                [id |-> studs[r].id, name |-> studs[r].name,
                 cells |-> [col \in SeqToSet(gradeColumns) |->
                    Or(Or(Get(g, studs[r].id, col), studs[r].cells[col]),
                       EmptyString)]]]
        ELSE << [id |-> "", name |-> "",
                 cells |-> [col \in SeqToSet(gradeColumns) |-> EmptyString]] >>

\* the keys of an exported row: [mapping.id], [mapping.name] and the grade
\* columns assigned to it
ExportKeys(row, m) == {m.id, m.name} \cup DOMAIN row.cells

-----------------------------------------------------------------------------
(* Structure inferrer.  A header is the sequence of its characters: ASCII  *)
(* characters as themselves, any other character as "uXXXX", its code      *)
(* point.  The patterns of the source are alternations of literal words,   *)
(* so a test is a substring search in the lower-cased header.              *)

\* hay has needle as a contiguous subsequence
Contains(hay, needle) ==
    \E i \in 0..(Len(hay) - Len(needle)) :
        SubSeq(hay, i + 1, i + Len(needle)) = needle

\* hay matches first.*second
ContainsThen(hay, first, second) ==
    \E i \in 0..(Len(hay) - Len(first)) :
        /\ SubSeq(hay, i + 1, i + Len(first)) = first
        /\ Contains(SubSeq(hay, i + Len(first) + 1, Len(hay)), second)

UpperCase == <<"A", "B", "C", "D", "E", "F", "G", "H", "I", "J", "K", "L", "M",
               "N", "O", "P", "Q", "R", "S", "T", "U", "V", "W", "X", "Y", "Z">>

LowerCase == <<"a", "b", "c", "d", "e", "f", "g", "h", "i", "j", "k", "l", "m",
               "n", "o", "p", "q", "r", "s", "t", "u", "v", "w", "x", "y", "z">>

\* header.toLowerCase() (the headers used hold no cased letter outside ASCII)
toLowerCase(h) ==
    [i \in 1..Len(h) |->
        IF \E j \in 1..26 : UpperCase[j] = h[i]
        THEN LowerCase[CHOOSE j \in 1..26 : UpperCase[j] = h[i]]
        ELSE h[i]]

\* /id|raqm|kud|raqm al-julus|kod|bianhao|número/i as its words
IdWords ==
    { <<"i", "d">>,
      <<"u0631", "u0642", "u0645">>,
      <<"u0643", "u0648", "u062F">>,
      <<"u0631", "u0642", "u0645", " ", "u0627", "u0644", "u062C", "u0644", "u0648", "u0633">>,
      <<"u043A", "u043E", "u0434">>,
      <<"u7F16", "u53F7">>,
      <<"n", "u00FA", "m", "e", "r", "o">> }

\* /name|ism|al-talib|student|talib|imya|xingming|nombre/i as its words
NameWords ==
    { <<"n", "a", "m", "e">>,
      <<"u0627", "u0633", "u0645">>,
      <<"u0627", "u0644", "u0637", "u0627", "u0644", "u0628">>,
      <<"s", "t", "u", "d", "e", "n", "t">>,
      <<"u0637", "u0627", "u0644", "u0628">>,
      <<"u0438", "u043C", "u044F">>,
      <<"u59D3", "u540D">>,
      <<"n", "o", "m", "b", "r", "e">> }

\* /grade|final|mark|daraja|total|majmu|natija|otsenka|chengji|
\* calificacion|quiz|exam|test|imtihan|ikhtibar/i as its words
GradeWords ==
    { <<"g", "r", "a", "d", "e">>,
      <<"f", "i", "n", "a", "l">>,
      <<"m", "a", "r", "k">>,
      <<"u062F", "u0631", "u062C", "u0629">>,
      <<"t", "o", "t", "a", "l">>,
      <<"u0645", "u062C", "u0645", "u0648", "u0639">>,
      <<"u0646", "u062A", "u064A", "u062C", "u0629">>,
      <<"u043E", "u0446", "u0435", "u043D", "u043A", "u0430">>,
      <<"u6210", "u7EE9">>,
      <<"c", "a", "l", "i", "f", "i", "c", "a", "c", "i", "u00F3", "n">>,
      <<"q", "u", "i", "z">>,
      <<"e", "x", "a", "m">>,
      <<"t", "e", "s", "t">>,
      <<"u0627", "u0645", "u062A", "u062D", "u0627", "u0646">>,
      <<"u0627", "u062E", "u062A", "u0628", "u0627", "u0631">> }

MatchesAny(words, h) == \E word \in words : Contains(h, word)

\* the identifier test of detectHeaders on the lower-cased header
IdPattern(headerLower) == MatchesAny(IdWords, headerLower)

\* the name test of detectHeaders on the lower-cased header
NamePattern(headerLower) == MatchesAny(NameWords, headerLower)

\* gradePatterns.some((pattern) => pattern.test(headerLower))
GradePattern(headerLower) == MatchesAny(GradeWords, headerLower)

\* idPatterns of enhanceHeaderMappingForEmptySheet: the identifier words,
\* student.*id and talib.*raqm
EnhanceIdPattern(headerLower) ==
    \/ MatchesAny(IdWords, headerLower)
    \/ ContainsThen(headerLower, <<"s", "t", "u", "d", "e", "n", "t">>, <<"i", "d">>)
    \/ ContainsThen(headerLower, <<"u0637", "u0627", "u0644", "u0628">>, <<"u0631", "u0642", "u0645">>)

\* namePatterns of enhanceHeaderMappingForEmptySheet: the name words,
\* ism.*talib and talib.*ism
EnhanceNamePattern(headerLower) ==
    \/ MatchesAny(NameWords, headerLower)
    \/ ContainsThen(headerLower, <<"u0627", "u0633", "u0645">>, <<"u0637", "u0627", "u0644", "u0628">>)
    \/ ContainsThen(headerLower, <<"u0637", "u0627", "u0644", "u0628">>, <<"u0627", "u0633", "u0645">>)

\* gradePatterns of enhanceHeaderMappingForEmptySheet: the grade words,
\* daraja.*imtihan and imtihan.*daraja
EnhanceGradePattern(headerLower) ==
    \/ MatchesAny(GradeWords, headerLower)
    \/ ContainsThen(headerLower, <<"u062F", "u0631", "u062C", "u0629">>, <<"u0627", "u0645", "u062A", "u062D", "u0627", "u0646">>)
    \/ ContainsThen(headerLower, <<"u0627", "u0645", "u062A", "u062D", "u0627", "u0646">>, <<"u062F", "u0631", "u062C", "u0629">>)

\* /^\d+$/.test(header)
IsNumeric(h) == Len(h) > 0 /\ \A i \in 1..Len(h) : IsDigit(h[i])

\* header.includes("__EMPTY")
HasEmptyMarker(h) == Contains(h, <<"_", "_", "E", "M", "P", "T", "Y">>)

\* the character class [U+0623-U+064A] (alef with hamza above to yeh)
ArabicLetters ==
    {
      "u0623", "u0624", "u0625", "u0626", "u0627", "u0628",
      "u0629", "u062A", "u062B", "u062C", "u062D", "u062E",
      "u062F", "u0630", "u0631", "u0632", "u0633", "u0634",
      "u0635", "u0636", "u0637", "u0638", "u0639", "u063A",
      "u063B", "u063C", "u063D", "u063E", "u063F", "u0640",
      "u0641", "u0642", "u0643", "u0644", "u0645", "u0646",
      "u0647", "u0648", "u0649", "u064A" }

\* /[U+0623-U+064A]/.test(header)
HasArabicLetter(h) == \E i \in 1..Len(h) : h[i] \in ArabicLetters

\* header strings
\* "ID"
H_ID == <<"I", "D">>

\* "Name"
H_Name == <<"N", "a", "m", "e">>

\* "Grade"
H_Grade == <<"G", "r", "a", "d", "e">>

\* "Final"
H_Final == <<"F", "i", "n", "a", "l">>

\* "Column 1"
H_Column1 == <<"C", "o", "l", "u", "m", "n", " ", "1">>

\* "Column 2"
H_Column2 == <<"C", "o", "l", "u", "m", "n", " ", "2">>

\* "Column 3"
H_Column3 == <<"C", "o", "l", "u", "m", "n", " ", "3">>

\* "123"
H_123 == <<"1", "2", "3">>

\* "__EMPTY"
H_EMPTY == <<"_", "_", "E", "M", "P", "T", "Y">>

\* Arabic "daraja" (grade)
H_Daraja == <<"u062F", "u0631", "u062C", "u0629">>

\* "Column 4"
H_Column4 == <<"C", "o", "l", "u", "m", "n", " ", "4">>

\* Arabic "raqm al-talib" (student number)
H_RaqmAlTalib == <<"u0631", "u0642", "u0645", " ", "u0627", "u0644", "u0637", "u0627", "u0644", "u0628">>

\* Arabic "ism al-talib" (student name)
H_IsmAlTalib == <<"u0627", "u0633", "u0645", " ", "u0627", "u0644", "u0637", "u0627", "u0644", "u0628">>

\* Arabic "al-daraja al-nihaiya" (final grade)
H_AlDarajaAlNihaiya == <<"u0627", "u0644", "u062F", "u0631", "u062C", "u0629", " ", "u0627", "u0644", "u0646", "u0647", "u0627", "u0626", "u064A", "u0629">>

\* the headers lists are drawn from
HeaderUniverse ==
    {H_ID, H_Name, H_Grade, H_Final, H_Column1, H_Column2, H_Column3, H_123, H_EMPTY, H_Daraja}

\* a HeaderMapping; "" is the empty sequence of characters
NoMapping == [id |-> <<>>, name |-> <<>>, grade |-> <<>>, gradeColumns |-> <<>>]

\* a first pass that takes the first two headers by position
FirstPassPositional(hs, i, m) ==
    IF Len(hs) >= 2 THEN [m EXCEPT !.id = hs[1], !.name = hs[2]] ELSE m

\* first pass of detectHeaders from header i on: the first header passing
\* the identifier test while id is unset becomes id, else the first passing
\* the name test while name is unset becomes name
RECURSIVE FirstPass(_, _, _)
FirstPass(hs, i, m) ==
    IF i > Len(hs) THEN m
    ELSE LET header == hs[i]
             headerLower == toLowerCase(header)
         IN  FirstPass(hs, i + 1,
                 IF IdPattern(headerLower) /\ m.id = <<>>
                 THEN [m EXCEPT !.id = header]
                 ELSE IF NamePattern(headerLower) /\ m.name = <<>>
                 THEN [m EXCEPT !.name = header]
                 ELSE m)

\* second pass of detectHeaders: potentialGradeColumns
SecondPass(hs, m) ==
    SelectSeq(hs, LAMBDA header :
        /\ header # m.id
        /\ header # m.name
        /\ GradePattern(toLowerCase(header)))

\* the first element of hs that satisfies Test, or "" when there is none
FirstWhere(hs, Test(_)) ==
    IF \E i \in 1..Len(hs) : Test(hs[i])
    THEN hs[CHOOSE i \in 1..Len(hs) :
               Test(hs[i]) /\ \A j \in 1..(i - 1) : ~Test(hs[j])]
    ELSE <<>>

\* a slice that ignores its start
SliceWhole(hs, n) == hs

\* headers.slice(n)
Slice(hs, n) == SubSeq(hs, n + 1, Len(hs))

\* the guesses of detectHeaders for slots the passes left unset
Fallbacks(hs, m) ==
    LET shapeId == FirstWhere(hs, LAMBDA h : IsNumeric(h) \/ HasEmptyMarker(h))
        m1 == IF m.id = <<>> THEN [m EXCEPT !.id = shapeId] ELSE m
        arabic == FirstWhere(hs, HasArabicLetter)
        m2 == IF m1.name = <<>> THEN [m1 EXCEPT !.name = arabic] ELSE m1
        m3 == IF (m2.id = <<>> \/ m2.name = <<>>) /\ Len(hs) >= 2
              THEN [m2 EXCEPT
                      !.id = IF m2.id = <<>> THEN hs[1] ELSE m2.id,
                      !.name = IF m2.name = <<>> THEN hs[2] ELSE m2.name]
              ELSE m2
    IN  IF m3.grade = <<>> /\ Len(hs) >= 3
        THEN [m3 EXCEPT
                !.grade = hs[3],
                !.gradeColumns =
                    IF Len(hs) > 3
                    THEN SelectSeq(Slice(hs, 3),
                                   LAMBDA h : h # m3.id /\ h # m3.name)
                    ELSE m3.gradeColumns]
        ELSE m3

\* detectHeaders(headers)
detectHeaders(hs) ==
    LET m1 == FirstPass(hs, 1, NoMapping)
        potentialGradeColumns == SecondPass(hs, m1)
        m2 == IF Len(potentialGradeColumns) > 0
              THEN [m1 EXCEPT
                      !.grade = potentialGradeColumns[1],
                      !.gradeColumns =
                          IF Len(potentialGradeColumns) > 1
                          THEN Slice(potentialGradeColumns, 1)
                          ELSE m1.gradeColumns]
              ELSE m1
    IN  IF Len(hs) > 0 THEN Fallbacks(hs, m2) ELSE m2

\* the matching loop of enhanceHeaderMappingForEmptySheet from header i on
RECURSIVE EnhanceLoop(_, _, _)
EnhanceLoop(hs, i, m) ==
    IF i > Len(hs) THEN m
    ELSE LET header == hs[i]
             headerLower == toLowerCase(header)
         IN  EnhanceLoop(hs, i + 1,
                 IF EnhanceIdPattern(headerLower) /\ m.id = <<>>
                 THEN [m EXCEPT !.id = header]
                 ELSE IF EnhanceNamePattern(headerLower) /\ m.name = <<>>
                 THEN [m EXCEPT !.name = header]
                 ELSE IF EnhanceGradePattern(headerLower)
                 THEN IF m.grade = <<>>
                      THEN [m EXCEPT !.grade = header]
                      ELSE [m EXCEPT !.gradeColumns = Append(@, header)]
                 ELSE m)

\* enhanceHeaderMappingForEmptySheet(emptySheetHeaders, globalPatterns):
\* isNull when it returns null, else the mapping
enhanceHeaderMappingForEmptySheet(hs, hasGlobalPatterns) ==
    LET m == EnhanceLoop(hs, 1, NoMapping)
    IN  IF ~hasGlobalPatterns \/ Len(hs) = 0
        THEN [isNull |-> TRUE, mapping |-> NoMapping]
        ELSE IF m.id = <<>> /\ m.name = <<>> /\ m.grade = <<>>
        THEN [isNull |-> FALSE,
              mapping |->
                 IF Len(hs) >= 2
                 THEN [id |-> hs[1], name |-> hs[2],
                       grade |-> IF Len(hs) >= 3 THEN hs[3] ELSE <<>>,
                       gradeColumns |->
                           IF Len(hs) > 3 THEN Slice(hs, 3) ELSE <<>>]
                 ELSE m]
        ELSE [isNull |-> FALSE, mapping |-> m]

\* lists of up to MaxHeaders distinct headers, and the lists of the
\* documented scenarios (three Arabic headers; Column 1 .. Column 4)
DistinctHeaderLists ==
    {hs \in UNION {[1..n -> HeaderUniverse] : n \in 0..MaxHeaders} :
        \A i, j \in 1..Len(hs) : i # j => hs[i] # hs[j]}

\* a header row may hold the same text in two cells (extractSheetHeaders
\* pushes every cell text): a list of distinct headers followed by one of
\* them again
RepeatedHeaderLists ==
    UNION {{Append(hs, hs[i]) : i \in 1..Len(hs)} :
              hs \in {d \in DistinctHeaderLists :
                         Len(d) >= 1 /\ Len(d) < MaxHeaders}}

HeaderLists ==
    DistinctHeaderLists
    \cup RepeatedHeaderLists
    \cup { <<H_RaqmAlTalib, H_IsmAlTalib, H_AlDarajaAlNihaiya>>,
           <<H_Column1, H_Column2, H_Column3, H_Column4>> }

-----------------------------------------------------------------------------
(* The session: mount, then one action per handler                         *)

\* a history of n alternating edits of cell (s1, g1), as n commits of "90"
\* and "85" in an earlier session leave it in localStorage
FillerValue(i) == IF i % 2 = 1 THEN Num(90) ELSE Num(85)

Filler(n) ==
    [i \in 1..n |->
        [studentId |-> "s1", column |-> "g1",
         oldValue |-> FillerValue(i - 1), newValue |-> FillerValue(i),
         studentName |-> "n1"]]

FillerGrades(t, n) ==
    Put(SeedGrades(t.students, t.mapping, NoGrades), "s1", "g1",
        FillerValue(n))

\* what localStorage holds when the table is first mounted: nothing
PersistedSessions(t) == { [grades |-> NoGrades, history |-> <<>>] }

-----------------------------------------------------------------------------
(* Grid readers.  A worksheet is its used range: the index of its first    *)
(* row (columns start at 0) and its rows, each a sequence of GridColumns   *)
(* cells; a cell is the value cell.v, Undefined where the sheet has no     *)
(* cell.                                                                   *)

\* arabicHeaderPatterns of extractSheetHeaders
arabicHeaderPatterns ==
    { <<"u0631", "u0642", "u0645", " ", "u0627", "u0644", "u062C", "u0644", "u0648", "u0633">>,
      <<"u0627", "u0633", "u0645", " ", "u0627", "u0644", "u0637", "u0627", "u0644", "u0628">>,
      <<"u0643", "u0648", "u062F", " ", "u0627", "u0644", "u0637", "u0627", "u0644", "u0628">>,
      <<"u0631", "u0642", "u0645", " ", "u0627", "u0644", "u0637", "u0627", "u0644", "u0628">>,
      <<"u0627", "u0633", "u0645">>,
      <<"u0631", "u0642", "u0645">>,
      <<"u0643", "u0648", "u062F">>,
      <<"u0637", "u0627", "u0644", "u0628">>,
      <<"u062F", "u0631", "u062C", "u0629">>,
      <<"u0627", "u0645", "u062A", "u062D", "u0627", "u0646">>,
      <<"u0646", "u062A", "u064A", "u062C", "u0629">>,
      <<"u0645", "u062C", "u0645", "u0648", "u0639">>,
      <<"u0627", "u062E", "u062A", "u0628", "u0627", "u0631">>,
      <<"u0645">>,
      <<"u062A">>,
      <<"u0627", "u0644", "u0645", "u062C", "u0645", "u0648", "u0639">>,
      <<"u0627", "u0644", "u0646", "u0647", "u0627", "u0626", "u064A">>,
      <<"u0627", "u0644", "u062F", "u0631", "u062C", "u0629">> }

\* the words of the name test of processArabicExcelSheet
StudentNameWords ==
    { <<"u0627", "u0633", "u0645", " ", "u0627", "u0644", "u0637", "u0627", "u0644", "u0628">>,
      <<"u0627", "u0633", "u0645", " ", "u0637", "u0627", "u0644", "u0628">> }

\* the words of the identifier test of processArabicExcelSheet
StudentIdWords ==
    { <<"u0631", "u0642", "u0645">>,
      <<"u0643", "u0648", "u062F", " ", "u0627", "u0644", "u0637", "u0627", "u0644", "u0628">>,
      <<"u0631", "u0642", "u0645", " ", "u0627", "u0644", "u062C", "u0644", "u0648", "u0633">> }

\* cell texts
T_RaqmAlTalib == Str(H_RaqmAlTalib)

T_IsmAlTalib == Str(H_IsmAlTalib)

T_Daraja == Str(H_Daraja)

T_AliOmar == Str(<<"A", "l", "i", " ", "O", "m", "a", "r">>)

\* what the first and the second column of a row may hold
FirstColumnCells == {Undefined, T_RaqmAlTalib, Num(2001), Num(7)}

SecondColumnCells == {Undefined, T_IsmAlTalib, T_Daraja, T_AliOmar}

GridRows ==
    {<<a, b>> : a \in FirstColumnCells, b \in SecondColumnCells}

\* the used range of a sheet starts and ends with a row that has a cell,
\* and each of its columns has a cell
IsUsedRange(rows) ==
    /\ Len(rows) > 0
    /\ \E C \in 1..GridColumns : rows[1][C] # Undefined
    /\ \E C \in 1..GridColumns : rows[Len(rows)][C] # Undefined
    /\ \A C \in {1, GridColumns} : \E r \in 1..Len(rows) : rows[r][C] # Undefined

Grids ==
    {[start |-> s, rows |-> rows] :
        s \in 0..MaxStart,
        rows \in {q \in UNION {[1..n -> GridRows] : n \in 1..MaxRows} :
                    IsUsedRange(q)}}

\* range.e.r
LastRow(g) == g.start + Len(g.rows) - 1

\* worksheet[encode_cell({r: R, c: C})].v, Undefined without a cell
CellAt(g, R, C) ==
    IF R >= g.start /\ R <= LastRow(g) /\ C >= 0 /\ C < GridColumns
    THEN g.rows[R - g.start + 1][C + 1]
    ELSE Undefined

\* String(cell.v)
CellString(v) == IF v.k = "str" THEN v.s ELSE toString(v)

\* String.prototype.trim for texts padded with spaces
RECURSIVE trim(_)
trim(cs) ==
    IF cs = <<>> THEN cs
    ELSE IF Head(cs) = " " THEN trim(Tail(cs))
    ELSE IF cs[Len(cs)] = " " THEN trim(SubSeq(cs, 1, Len(cs) - 1))
    ELSE cs

\* the cell has a value whose trimmed text is not empty
HasText(v) == v # Undefined /\ trim(CellString(v)) # <<>>

\* hasArabicPattern of a cell
hasArabicPattern(v) ==
    /\ HasText(v)
    /\ \E pattern \in arabicHeaderPatterns :
          \/ Contains(toLowerCase(trim(CellString(v))), toLowerCase(pattern))
          \/ Contains(trim(CellString(v)), pattern)

\* arabicMatchCount of row R
arabicMatchCount(g, R) ==
    Cardinality({C \in 0..(GridColumns - 1) : hasArabicPattern(CellAt(g, R, C))})

\* hasContent of row R
hasContent(g, R) == \E C \in 0..(GridColumns - 1) : HasText(CellAt(g, R, C))

\* `Column ${C + 1}`
ColumnLabel(C) == <<"C", "o", "l", "u", "m", "n", " ">> \o toString(Num(C + 1))

\* rowHeaders of row R: the trimmed text of each cell, Column n for a cell
\* without text
rowHeaders(g, R) ==
    [i \in 1..GridColumns |->
        IF HasText(CellAt(g, R, i - 1))
        THEN trim(CellString(CellAt(g, R, i - 1)))
        ELSE ColumnLabel(i - 1)]

\* the scan of extractSheetHeaders from row R on, with the running best
RECURSIVE ScanBestHeaderRow(_, _, _)
ScanBestHeaderRow(g, R, best) ==
    IF R > LastRow(g) THEN best
    ELSE ScanBestHeaderRow(g, R + 1,
            IF /\ hasContent(g, R)
               /\ arabicMatchCount(g, R) > 0
               /\ arabicMatchCount(g, R) > best.bestMatchCount
            THEN [headerRowIndex |-> R, bestHeaderRow |-> rowHeaders(g, R),
                  bestMatchCount |-> arabicMatchCount(g, R)]
            ELSE best)

\* extractSheetHeaders(worksheet): the row it took the labels from (the
\* first row of the range in the fallback) and the labels
extractSheetHeaders(g) ==
    LET best == ScanBestHeaderRow(g, g.start,
                    [headerRowIndex |-> -1, bestHeaderRow |-> <<>>,
                     bestMatchCount |-> 0])
    IN  IF best.headerRowIndex >= 0 /\ Len(best.bestHeaderRow) > 0
        THEN [headerRowIndex |-> best.headerRowIndex,
              headers |-> best.bestHeaderRow]
        ELSE [headerRowIndex |-> g.start, headers |-> rowHeaders(g, g.start)]

\* cell && cell.v
TruthyCell(v) == v # Undefined /\ Truthy(v)

\* the name test and the identifier test of the first pass
IsStudentNameCell(v) ==
    /\ TruthyCell(v)
    /\ \E w \in StudentNameWords : Contains(toLowerCase(CellString(v)), w)

IsStudentIdCell(v) ==
    /\ TruthyCell(v)
    /\ \E w \in StudentIdWords : Contains(toLowerCase(CellString(v)), w)

\* the last column of row R that passes Test, -1 when none does
LastColumn(g, R, Test(_)) ==
    LET hits == {C \in 0..(GridColumns - 1) : Test(CellAt(g, R, C))}
    IN  IF hits = {} THEN -1
        ELSE CHOOSE C \in hits : \A C2 \in hits : C2 <= C

\* hasHeaderInfo of row R
hasHeaderInfo(g, R) ==
    \E C \in 0..(GridColumns - 1) :
        IsStudentNameCell(CellAt(g, R, C)) \/ IsStudentIdCell(CellAt(g, R, C))

\* the first pass of processArabicExcelSheet: the first row with header
\* information ends the scan
RECURSIVE ScanHeaderInfo(_, _)
ScanHeaderInfo(g, R) ==
    IF R > LastRow(g)
    THEN [headerRowIndex |-> -1, studentIdColumnIndex |-> -1,
          studentNameColumnIndex |-> -1]
    ELSE IF hasHeaderInfo(g, R)
    THEN [headerRowIndex |-> R,
          studentIdColumnIndex |-> LastColumn(g, R, IsStudentIdCell),
          studentNameColumnIndex |-> LastColumn(g, R, IsStudentNameCell)]
    ELSE ScanHeaderInfo(g, R + 1)

\* typeof cell.v === "number" && cell.v > 1000, with a string that
\* includes " " in the next column
IsStudentRowAt(g, R, C) ==
    /\ CellAt(g, R, C).k = "num"
    /\ CellAt(g, R, C).n > 1000
    /\ CellAt(g, R, C + 1).k = "str"
    /\ Contains(CellAt(g, R, C + 1).s, <<" ">>)

\* the second pass from row R on: the first matching column of a row sets
\* the three indices and ends the row; the rows end when headerRowIndex >= 0
RECURSIVE ScanStudentRow(_, _, _)
ScanStudentRow(g, R, found) ==
    IF R > LastRow(g) THEN found
    ELSE LET hits == {C \in 0..(GridColumns - 1) : IsStudentRowAt(g, R, C)}
             C1 == CHOOSE C \in hits : \A C2 \in hits : C <= C2
             now == IF hits = {} THEN found
                    ELSE [headerRowIndex |-> R - 1,
                          studentIdColumnIndex |-> C1,
                          studentNameColumnIndex |-> C1 + 1]
         IN  IF now.headerRowIndex >= 0 THEN now
             ELSE ScanStudentRow(g, R + 1, now)

\* the rows after row H that have a cell in column idC and in column nameC
\* and a value under at least one header of row H
StudentRows(g, H, idC, nameC) ==
    {R \in (H + 1)..LastRow(g) :
        /\ CellAt(g, R, idC) # Undefined
        /\ CellAt(g, R, nameC) # Undefined
        /\ \E C \in 0..(GridColumns - 1) : TruthyCell(CellAt(g, H, C))}

\* processArabicExcelSheet(worksheet): the indices its scans end with, the
\* row whose cells become the keys of the students (sheet_to_json takes the
\* first row of the range) and the rows that become students
processArabicExcelSheet(g) ==
    LET first == ScanHeaderInfo(g, g.start)
        found == IF first.headerRowIndex < 0
                 THEN ScanStudentRow(g, g.start, first)
                 ELSE first
    IN  IF \/ found.headerRowIndex < 0
           \/ found.studentIdColumnIndex < 0
           \/ found.studentNameColumnIndex < 0
        THEN [headerRowIndex |-> found.headerRowIndex,
              studentIdColumnIndex |-> found.studentIdColumnIndex,
              studentNameColumnIndex |-> found.studentNameColumnIndex,
              method |-> "sheet_to_json",
              keysRow |-> g.start,
              studentRows |-> {R \in (g.start + 1)..LastRow(g) :
                                  \E C \in 0..(GridColumns - 1) :
                                      CellAt(g, R, C) # Undefined}]
        ELSE [headerRowIndex |-> found.headerRowIndex,
              studentIdColumnIndex |-> found.studentIdColumnIndex,
              studentNameColumnIndex |-> found.studentNameColumnIndex,
              method |-> "scan",
              keysRow |-> found.headerRowIndex,
              studentRows |-> StudentRows(g, found.headerRowIndex,
                                          found.studentIdColumnIndex,
                                          found.studentNameColumnIndex)]

\* no worksheet is being read
ScanIdle ==
    [grid |-> [start |-> 0, rows |-> <<>>], pc |-> "idle",
     extracted |-> [headerRowIndex |-> -1, headers |-> <<>>],
     processed |-> [headerRowIndex |-> -1, studentIdColumnIndex |-> -1,
                    studentNameColumnIndex |-> -1, method |-> "",
                    keysRow |-> -1, studentRows |-> {}]]

-----------------------------------------------------------------------------
(* The page (Index): the workbook read from an uploaded file, the sheet    *)
(* selection, the mapping editor, the tabs and the reset.  A sheet is what *)
(* the grid readers return for it: its name, its rows and its header row.  *)
(* A row is [id, name, cells] as in the grade table; its keys are the      *)
(* header texts ID, Name, Grade (cells.g1) and Final (cells.g2).           *)

\* the row key behind a header text ("" for undefined / no such key)
ColumnKey(text) ==
    CASE text = H_ID -> "id"
      [] text = H_Name -> "name"
      [] text = H_Grade -> "g1"
      [] text = H_Final -> "g2"
      [] OTHER -> ""

\* Object.keys(row): sheet_to_json leaves the keys of empty cells out
ObjectKeys(row) ==
    <<H_ID, H_Name>>
        \o (IF row.cells.g1 # Undefined THEN <<H_Grade>> ELSE <<>>)
        \o (IF row.cells.g2 # Undefined THEN <<H_Final>> ELSE <<>>)

\* the mapping of a sheet that has no enhancedMapping property
NoEnhancedMapping == [isNull |-> TRUE, mapping |-> NoMapping]

SheetOf(name, data, hs) ==
    [name |-> name, data |-> data, headers |-> hs,
     enhancedMapping |-> NoEnhancedMapping]

SheetA ==
    SheetOf("A", << [id |-> "s1", name |-> "n1",
                     cells |-> [g1 |-> Num(85), g2 |-> Undefined]] >>,
            <<H_ID, H_Name, H_Grade>>)

SheetB ==
    SheetOf("B", << [id |-> "s2", name |-> "n2",
                     cells |-> [g1 |-> Num(70), g2 |-> Num(60)]] >>,
            <<H_ID, H_Name, H_Grade, H_Final>>)

\* rows without a grade cell
SheetN ==
    SheetOf("N", << [id |-> "s1", name |-> "n1",
                     cells |-> [g1 |-> Undefined, g2 |-> Undefined]] >>,
            <<H_ID, H_Name>>)

\* a header row and no rows
SheetE == SheetOf("E", <<>>, <<H_ID, H_Name, H_Grade, H_Final>>)

\* a header row of which one header is recognised, and no rows
SheetC == SheetOf("C", <<>>, <<H_ID, H_Column1, H_Column2>>)

\* a header row with two headers that no pattern recognises, and no rows
SheetD ==
    SheetOf("D", <<>>, <<H_ID, H_Name, H_Grade, H_Column1, H_Column2>>)

\* nothing at all
SheetX == SheetOf("X", <<>>, <<>>)

Xlsx == <<"x", "l", "s", "x">>

Xls == <<"x", "l", "s">>

\* a file: its size in bytes, the part of its name after the last dot,
\* whether XLSX.read accepts its bytes, and the sheets of the workbook
FileOf(sheets) ==
    [size |-> 1, ext |-> Xlsx, readable |-> TRUE, sheets |-> sheets]

GoodFiles ==
    { FileOf(<<SheetA, SheetB, SheetE>>),
      FileOf(<<SheetE, SheetA>>),
      FileOf(<<SheetN>>),
      FileOf(<<SheetC, SheetX>>),
      [FileOf(<<SheetB, SheetC>>) EXCEPT !.ext = <<"X", "L", "S">>] }

BadFiles ==
    { [size |-> 0, ext |-> Xlsx, readable |-> FALSE, sheets |-> <<>>],
      [FileOf(<<SheetA>>) EXCEPT !.ext = <<"c", "s", "v">>],
      [FileOf(<<>>) EXCEPT !.readable = FALSE],
      FileOf(<<>>) }

Files == GoodFiles \cup BadFiles

NoFile == [size |-> 0, ext |-> <<>>, readable |-> FALSE, sheets |-> <<>>]

\* excelData as useState initialises it; currentSheet is the position of
\* the current sheet in sheets, 0 for null
NoExcelData ==
    [sheets |-> <<>>, currentSheet |-> 0, headers |-> <<>>,
     mapping |-> NoEnhancedMapping]

\* a choice of the current sheet that ignores the rows
FirstSheetAlways(sheets) == 0

\* position of the first sheet with rows, 0 when there is none
FirstNonEmpty(sheets) ==
    IF \E i \in 1..Len(sheets) : Len(sheets[i].data) > 0
    THEN CHOOSE i \in 1..Len(sheets) :
            /\ Len(sheets[i].data) > 0
            /\ \A j \in 1..(i - 1) : Len(sheets[j].data) = 0
    ELSE 0

\* headers of a sheet: the keys of its first row, else its header row
SheetHeaders(sheet) ==
    IF Len(sheet.data) > 0 THEN ObjectKeys(sheet.data[1]) ELSE sheet.headers

\* mapping of a sheet: its enhancedMapping when it has no rows and has
\* one, else detectHeaders(headers)
SheetMapping(sheet) ==
    IF Len(sheet.data) = 0 /\ ~sheet.enhancedMapping.isNull
    THEN sheet.enhancedMapping
    ELSE [isNull |-> FALSE, mapping |-> detectHeaders(SheetHeaders(sheet))]

\* the third pass of parseExcelFile: enhancedMapping of the sheets without
\* rows that have a header row
WithEnhancedMappings(sheets) ==
    [i \in 1..Len(sheets) |->
        IF Len(sheets[i].data) = 0 /\ Len(sheets[i].headers) > 0
        THEN [sheets[i] EXCEPT !.enhancedMapping =
                 enhanceHeaderMappingForEmptySheet(
                     sheets[i].headers, FirstNonEmpty(sheets) # 0)]
        ELSE sheets[i]]

\* parseExcelFile(file): the promise rejects with an error or resolves
\* with the processed workbook
parseExcelFile(file) ==
    IF file.size <= 0
    THEN [ok |-> FALSE, error |-> "The Excel file is empty",
          data |-> NoExcelData]
    ELSE IF toLowerCase(file.ext) # Xlsx /\ toLowerCase(file.ext) # Xls
    THEN [ok |-> FALSE, error |-> "Invalid file format",
          data |-> NoExcelData]
    ELSE IF ~file.readable
    THEN [ok |-> FALSE, error |-> "Failed to parse the Excel file",
          data |-> NoExcelData]
    ELSE IF Len(file.sheets) = 0
    THEN [ok |-> FALSE, error |-> "The file contains no sheets",
          data |-> NoExcelData]
    ELSE LET sheets == WithEnhancedMappings(file.sheets)
             first == FirstNonEmpty(sheets)
             current == IF first # 0 THEN first ELSE 1
         IN  [ok |-> TRUE, error |-> "",
              data |-> [sheets |-> sheets, currentSheet |-> current,
                        headers |-> SheetHeaders(sheets[current]),
                        mapping |-> SheetMapping(sheets[current])]]

\* the page as it mounts: nothing uploaded, the Process tab shown
IndexInitial ==
    [isLoading |-> FALSE, file |-> NoFile, tab |-> "process",
     activeStep |-> "upload", excelData |-> NoExcelData,
     mappingConfirmed |-> FALSE, toast |-> "",
     additionalGradeColumns |-> <<>>]

\* mappingConfirmed && excelData.currentSheet && excelData.mapping: the
\* condition under which the grade table is rendered and Ctrl+S exports
GradeEntryEnabled(ix) ==
    /\ ix.mappingConfirmed
    /\ ix.excelData.currentSheet # 0
    /\ ~ix.excelData.mapping.isNull

\* HeaderMapping.isComplete: mapping.id && mapping.name && mapping.grade
isComplete(m) == m.id # <<>> /\ m.name # <<>> /\ m.grade # <<>>

\* a handler that leaves excelData as it is when the promise rejects
handleFileUploadKeepsData(ix, parsed) ==
    IF parsed.ok
    THEN [ix EXCEPT !.excelData = parsed.data,
                    !.activeStep = "configure",
                    !.toast = "File Uploaded",
                    !.isLoading = FALSE, !.file = NoFile]
    ELSE [ix EXCEPT !.toast = "Error",
                    !.isLoading = FALSE, !.file = NoFile]

\* the catch and then-branches of handleFileUpload, given the settled
\* promise of parseExcelFile
handleFileUpload(ix, parsed) ==
    IF parsed.ok
    THEN [ix EXCEPT !.excelData = parsed.data,
                    !.activeStep = "configure",
                    !.toast = "File Uploaded",
                    !.isLoading = FALSE, !.file = NoFile]
    ELSE [ix EXCEPT !.excelData = NoExcelData,
                    !.toast = "Error",
                    !.isLoading = FALSE, !.file = NoFile]

\* handleSheetChange(sheetName)
handleSheetChange(ix, sheetName) ==
    LET sheets == ix.excelData.sheets
        found == {i \in 1..Len(sheets) : sheets[i].name = sheetName}
    IN  IF found = {} THEN ix
        ELSE LET i == CHOOSE k \in found : \A k2 \in found : k <= k2
             IN  [ix EXCEPT
                    !.excelData = [@ EXCEPT
                        !.currentSheet = i,
                        !.headers = SheetHeaders(sheets[i]),
                        !.mapping = SheetMapping(sheets[i])],
                    !.mappingConfirmed = FALSE,
                    !.toast = IF Len(sheets[i].data) = 0
                              THEN "Empty Sheet Selected" ELSE @]

\* handleMappingChange(field, value) for the fields id, name and grade
handleMappingChange(ix, field, value) ==
    IF ix.excelData.mapping.isNull THEN ix
    ELSE [ix EXCEPT !.excelData.mapping.mapping =
             [f \in DOMAIN @ |-> IF f = field THEN value ELSE @[f]]]

\* confirmMapping()
confirmMapping(ix) ==
    IF ix.excelData.mapping.isNull \/ ix.excelData.currentSheet = 0
    THEN [ix EXCEPT !.toast = "Error"]
    ELSE IF Len(ix.excelData.sheets[ix.excelData.currentSheet].data) = 0
    THEN [ix EXCEPT !.mappingConfirmed = TRUE, !.activeStep = "grades",
                    !.toast = "Empty Sheet"]
    ELSE [ix EXCEPT !.mappingConfirmed = TRUE, !.activeStep = "grades",
                    !.toast = "Mapping Confirmed"]

\* resetToUpload(): the state part; it also removes every localStorage key
resetToUpload(ix) ==
    [ix EXCEPT !.activeStep = "upload", !.excelData = NoExcelData,
               !.mappingConfirmed = FALSE]

-----------------------------------------------------------------------------
(* Sessions of the grade table                                             *)

\* localStorage after an earlier session of HistoryCap commits on the same
\* sheet
CapSessions(t) ==
    {[grades |-> FillerGrades(t, n), history |-> Filler(n)] :
        n \in {HistoryCap}}

\* mount effects in order: seed grades, load history (cursor = length - 1),
\* then the two save effects on the following render
Mount(studs, m, savedGrades, savedHistory) ==
    LET g == SeedGrades(studs, m, savedGrades)
        h == JsonHistory(savedHistory)
    IN  [grades |-> g, editHistory |-> h,
         currentHistoryIndex |-> Len(h) - 1,
         lsGrades |-> SaveGradesEffect(g, savedGrades),
         lsHistory |-> SaveHistoryEffect(h, savedHistory)]

InferIdle ==
    /\ headers = <<>>
    /\ inferred = [pc |-> "idle", isNull |-> FALSE, mapping |-> NoMapping]
    /\ page = IndexInitial
    /\ scan = ScanIdle

\* the table mounted on sheet t with localStorage as session left it
Mounted(t, session) ==
    LET mt == Mount(t.students, t.mapping, session.grades, session.history)
    IN  /\ students = t.students
        /\ mapping = t.mapping
        /\ grades = mt.grades
        /\ editHistory = mt.editHistory
        /\ currentHistoryIndex = mt.currentHistoryIndex
        /\ lsGrades = mt.lsGrades
        /\ lsHistory = mt.lsHistory
        /\ editingCell = NoCell
        /\ tempGrade = <<>>
        /\ toast = ""
        /\ onlyCommits = TRUE
        /\ nCommits = 0

Init ==
    /\ \E t \in Tables : \E session \in PersistedSessions(t) :
          Mounted(t, session)
    /\ InferIdle

InitCap ==
    /\ \E t \in Tables : \E session \in CapSessions(t) : Mounted(t, session)
    /\ InferIdle

\* remount of the table (page reload): state is rebuilt from localStorage
Reload ==
    LET mt == Mount(students, mapping, lsGrades, lsHistory)
    IN  /\ grades' = mt.grades
        /\ editHistory' = mt.editHistory
        /\ currentHistoryIndex' = mt.currentHistoryIndex
        /\ lsGrades' = mt.lsGrades
        /\ lsHistory' = mt.lsHistory
        /\ editingCell' = NoCell
        /\ tempGrade' = <<>>
        /\ toast' = ""
        /\ UNCHANGED <<students, mapping, onlyCommits, nCommits,
                       headers, inferred, page, scan>>

\* startEditing(studentId, column): click on a displayed cell
StartEditing ==
    \E r \in 1..Len(students), col \in SeqToSet(getAllGradeColumns(mapping)) :
        /\ editingCell' = [studentId |-> students[r].id, column |-> col]
        /\ tempGrade' = EditText(grades, students[r].id, col)
        /\ toast' = ""
        /\ UNCHANGED <<students, mapping, grades, editHistory,
                       currentHistoryIndex, lsGrades, lsHistory,
                       onlyCommits, nCommits, headers, inferred, page, scan>>

\* handleGradeChange(value): typing in the open input
HandleGradeChange ==
    \E text \in Texts :
        /\ editingCell # NoCell
        /\ tempGrade' = text
        /\ toast' = ""
        /\ UNCHANGED <<students, mapping, grades, editingCell, editHistory,
                       currentHistoryIndex, lsGrades, lsHistory,
                       onlyCommits, nCommits, headers, inferred, page, scan>>

\* the state changes of saveGrade followed by the two save effects
ApplySave(res) ==
    /\ res.appended => nCommits < MaxCommits
    /\ grades' = res.grades
    /\ editHistory' = res.editHistory
    /\ currentHistoryIndex' = res.currentHistoryIndex
    /\ toast' = res.toast
    /\ lsGrades' = IF res.appended
                   THEN SaveGradesEffect(res.grades, lsGrades) ELSE lsGrades
    /\ lsHistory' = IF res.appended
                    THEN SaveHistoryEffect(res.editHistory, lsHistory)
                    ELSE lsHistory
    /\ nCommits' = IF res.appended THEN nCommits + 1 ELSE nCommits

\* Enter in the input, or the input losing focus: saveGrade on the cell
\* being edited
SaveGrade ==
    /\ editingCell # NoCell
    /\ LET res == saveGrade(grades, editHistory, currentHistoryIndex,
                            editingCell, students, mapping,
                            editingCell.studentId, editingCell.column,
                            tempGrade)
       IN  /\ ApplySave(res)
           /\ editingCell' = res.editingCell
    /\ UNCHANGED <<students, mapping, tempGrade, onlyCommits,
                   headers, inferred, page, scan>>

\* the cell Tab moves to: next grade column of the row, else the first
\* grade column of the next displayed row, else none
NextCell(studs, m, cell) ==
    LET gradeColumns == getAllGradeColumns(m)
        ci == CHOOSE i \in 1..Len(gradeColumns) : gradeColumns[i] = cell.column
        ri == CHOOSE i \in 1..Len(studs) :
                 /\ studs[i].id = cell.studentId
                 /\ \A j \in 1..(i - 1) : studs[j].id # cell.studentId
    IN  IF ci < Len(gradeColumns)
        THEN [studentId |-> cell.studentId, column |-> gradeColumns[ci + 1]]
        ELSE IF ri < Len(studs)
        THEN [studentId |-> studs[ri + 1].id, column |-> gradeColumns[1]]
        ELSE NoCell

\* Tab in the input: saveGrade, then startEditing on the next cell
KeyTab ==
    /\ editingCell # NoCell
    /\ LET res == saveGrade(grades, editHistory, currentHistoryIndex,
                            editingCell, students, mapping,
                            editingCell.studentId, editingCell.column,
                            tempGrade)
           next == NextCell(students, mapping, editingCell)
       IN  /\ ApplySave(res)
           /\ editingCell' = IF next # NoCell THEN next ELSE res.editingCell
           /\ tempGrade' = IF next # NoCell
                           THEN EditText(grades, next.studentId, next.column)
                           ELSE tempGrade
    /\ UNCHANGED <<students, mapping, onlyCommits, headers, inferred, page, scan>>

\* Escape in the input
KeyEscape ==
    /\ editingCell # NoCell
    /\ editingCell' = NoCell
    /\ toast' = ""
    /\ UNCHANGED <<students, mapping, grades, tempGrade, editHistory,
                   currentHistoryIndex, lsGrades, lsHistory, onlyCommits,
                   nCommits, headers, inferred, page, scan>>

\* the save-grades effect after a handler that may have called setGrades
GradesEffectAfter(res) ==
    IF res.toast \in {"Undo: Restored", "Redo: Re-applied", "History Jump"}
    THEN SaveGradesEffect(res.grades, lsGrades)
    ELSE lsGrades

\* undo button or Ctrl+Z
HandleUndo ==
    LET res == handleUndo(grades, editHistory, currentHistoryIndex)
    IN  /\ grades' = res.grades
        /\ currentHistoryIndex' = res.currentHistoryIndex
        /\ toast' = res.toast
        /\ lsGrades' = GradesEffectAfter(res)
        /\ onlyCommits' = FALSE
        /\ UNCHANGED <<students, mapping, editingCell, tempGrade,
                       editHistory, lsHistory, nCommits, headers, inferred, page, scan>>

\* redo button or Ctrl+Y
HandleRedo ==
    LET res == handleRedo(grades, editHistory, currentHistoryIndex)
    IN  /\ grades' = res.grades
        /\ currentHistoryIndex' = res.currentHistoryIndex
        /\ toast' = res.toast
        /\ lsGrades' = GradesEffectAfter(res)
        /\ onlyCommits' = FALSE
        /\ UNCHANGED <<students, mapping, editingCell, tempGrade,
                       editHistory, lsHistory, nCommits, headers, inferred, page, scan>>

\* click on entry index of the history panel
JumpToHistoryPoint ==
    \E index \in 0..(Len(editHistory) - 1) :
        LET res == jumpToHistoryPoint(grades, editHistory, students,
                                      mapping, index)
        IN  /\ grades' = res.grades
            /\ currentHistoryIndex' = res.currentHistoryIndex
            /\ toast' = res.toast
            /\ lsGrades' = GradesEffectAfter(res)
            /\ onlyCommits' = FALSE
            /\ UNCHANGED <<students, mapping, editingCell, tempGrade,
                           editHistory, lsHistory, nCommits,
                           headers, inferred, page, scan>>

\* a clear that leaves the persisted history in place
ClearHistoryKeepsPersisted ==
    /\ Len(editHistory) > 0
    /\ editHistory' = <<>>
    /\ currentHistoryIndex' = -1
    /\ toast' = "History Cleared"
    /\ UNCHANGED <<students, mapping, grades, editingCell, tempGrade,
                   lsGrades, lsHistory, onlyCommits, nCommits,
                   headers, inferred, page, scan>>

\* Clear History button (disabled while the history is empty)
ClearHistory ==
    /\ Len(editHistory) > 0
    /\ editHistory' = <<>>
    /\ currentHistoryIndex' = -1
    /\ lsHistory' = <<>>
    /\ toast' = "History Cleared"
    /\ UNCHANGED <<students, mapping, grades, editingCell, tempGrade,
                   lsGrades, onlyCommits, nCommits, headers, inferred, page, scan>>

Next ==
    \/ StartEditing
    \/ HandleGradeChange
    \/ SaveGrade
    \/ KeyTab
    \/ KeyEscape
    \/ HandleUndo
    \/ HandleRedo
    \/ JumpToHistoryPoint
    \/ ClearHistory
    \/ Reload

Spec == Init /\ [][Next]_vars

\* the cursor is within CursorWindow entries of either end of the history
NearEnds(c, len) == c < CursorWindow \/ c >= len - 1 - CursorWindow

NextCap ==
    \/ StartEditing
    \/ HandleGradeChange
    \/ SaveGrade /\ nCommits' <= CapCommits
    \/ KeyTab /\ nCommits' <= CapCommits
    \/ KeyEscape
    \/ HandleUndo /\ NearEnds(currentHistoryIndex', Len(editHistory))
    \/ HandleRedo /\ NearEnds(currentHistoryIndex', Len(editHistory))
    \/ JumpToHistoryPoint /\ NearEnds(currentHistoryIndex', Len(editHistory))
    \/ ClearHistory
    \/ Reload

SpecCap == InitCap /\ [][NextCap]_vars

-----------------------------------------------------------------------------
(* The structure inferrer applied to one header list                       *)

InitInfer ==
    /\ \E t \in Tables : \E session \in PersistedSessions(t) :
          Mounted(t, session)
    /\ headers \in HeaderLists
    /\ inferred = [pc |-> "idle", isNull |-> FALSE, mapping |-> NoMapping]
    /\ page = IndexInitial
    /\ scan = ScanIdle

sessionVars == <<students, mapping, grades, editingCell, tempGrade,
                 editHistory, currentHistoryIndex, lsGrades, lsHistory,
                 toast, onlyCommits, nCommits>>

\* detectHeaders(headers) on a sheet with rows
DetectHeaders ==
    /\ inferred.pc = "idle"
    /\ inferred' = [pc |-> "detectHeaders", isNull |-> FALSE,
                    mapping |-> detectHeaders(headers)]
    /\ UNCHANGED <<headers, sessionVars, page, scan>>

\* enhanceHeaderMappingForEmptySheet(headers, globalPatterns) on a sheet
\* without rows; globalPatterns is null when no sheet of the workbook has rows
EnhanceEmptySheet ==
    \E hasGlobalPatterns \in BOOLEAN :
        LET res == enhanceHeaderMappingForEmptySheet(headers, hasGlobalPatterns)
        IN  /\ inferred.pc = "idle"
            /\ inferred' = [pc |-> "enhanceHeaderMappingForEmptySheet",
                            isNull |-> res.isNull, mapping |-> res.mapping]
            /\ UNCHANGED <<headers, sessionVars, page, scan>>

NextInfer ==
    \/ DetectHeaders
    \/ EnhanceEmptySheet

SpecInfer == InitInfer /\ [][NextInfer]_vars

-----------------------------------------------------------------------------
(* The page and the grade table it renders                                 *)

\* the grade table is rendered: the Grades tab is shown and grade entry is
\* enabled
TableShown(ix) == ix.tab = "grades" /\ GradeEntryEnabled(ix)

\* student[mapping.id] and student[mapping.name] of the rows handed to the
\* table; the sheets of the model have both among ID and Name
BindRows(rows, m) ==
    [r \in 1..Len(rows) |->
        [id |-> CASE ColumnKey(m.id) = "id" -> rows[r].id
                  [] ColumnKey(m.id) = "name" -> rows[r].name
                  [] OTHER -> "undefined",
         name |-> CASE ColumnKey(m.name) = "id" -> rows[r].id
                    [] ColumnKey(m.name) = "name" -> rows[r].name
                    [] OTHER -> "undefined",
         cells |-> rows[r].cells]]

\* the mapping prop in terms of the row keys
KeyMapping(m) ==
    [id |-> ColumnKey(m.id), name |-> ColumnKey(m.name),
     grade |-> ColumnKey(m.grade),
     gradeColumns |-> [i \in 1..Len(m.gradeColumns) |->
                          ColumnKey(m.gradeColumns[i])]]

\* the props of the table: students={currentSheet.data} (or [] for a sheet
\* without rows) and mapping={excelData.mapping}
TableProps(ix) ==
    LET sheet == ix.excelData.sheets[ix.excelData.currentSheet]
        m == ix.excelData.mapping.mapping
    IN  [students |-> BindRows(sheet.data, m), mapping |-> KeyMapping(m)]

\* what rendering the page does to the table when the page goes from old
\* to new with localStorage as savedGrades and savedHistory: the table is
\* unmounted, mounted, or (new props on a mounted table) seeded again
Render(old, new, savedGrades, savedHistory) ==
    IF ~TableShown(new)
    THEN /\ students' = <<>>
         /\ mapping' = KeyMapping(NoMapping)
         /\ grades' = NoGrades
         /\ editHistory' = <<>>
         /\ currentHistoryIndex' = -1
         /\ editingCell' = NoCell
         /\ tempGrade' = <<>>
         /\ toast' = ""
         /\ lsGrades' = savedGrades
         /\ lsHistory' = savedHistory
    ELSE LET props == TableProps(new)
             mt == Mount(props.students, props.mapping,
                         savedGrades, savedHistory)
             fresh == \/ ~TableShown(old)
                      \/ (Len(students) = 0) # (Len(props.students) = 0)
             seeded == SeedGrades(props.students, props.mapping, savedGrades)
         IN  /\ students' = props.students
             /\ mapping' = props.mapping
             /\ grades' = IF fresh THEN mt.grades ELSE seeded
             /\ editHistory' = IF fresh THEN mt.editHistory ELSE editHistory
             /\ currentHistoryIndex' =
                   IF fresh THEN mt.currentHistoryIndex
                   ELSE currentHistoryIndex
             /\ editingCell' = IF fresh THEN NoCell ELSE editingCell
             /\ tempGrade' = IF fresh THEN <<>> ELSE tempGrade
             /\ toast' = IF fresh THEN "" ELSE toast
             /\ lsGrades' = IF fresh THEN mt.lsGrades
                            ELSE SaveGradesEffect(seeded, savedGrades)
             /\ lsHistory' = IF fresh THEN mt.lsHistory ELSE savedHistory

\* the page with nothing uploaded and the table not rendered
InitIndex ==
    /\ page = IndexInitial
    /\ scan = ScanIdle
    /\ students = <<>>
    /\ mapping = KeyMapping(NoMapping)
    /\ grades = NoGrades
    /\ editHistory = <<>>
    /\ currentHistoryIndex = -1
    /\ editingCell = NoCell
    /\ tempGrade = <<>>
    /\ toast = ""
    /\ lsGrades = NoGrades
    /\ lsHistory = <<>>
    /\ onlyCommits = TRUE
    /\ nCommits = 0
    /\ headers = <<>>
    /\ inferred = [pc |-> "idle", isNull |-> FALSE, mapping |-> NoMapping]

\* the mapping editor is rendered
MappingEditorShown(ix) ==
    /\ ix.tab = "configure"
    /\ Len(ix.excelData.sheets) > 0
    /\ ix.excelData.currentSheet # 0
    /\ ~ix.excelData.mapping.isNull

\* the state of the mapping editor (HeaderMapping) after the page goes
\* from old to new: useState(mapping.gradeColumns) when the editor mounts,
\* kept as it is while the editor stays mounted, gone when it unmounts
WithEditor(old, new) ==
    [new EXCEPT !.additionalGradeColumns =
        IF ~MappingEditorShown(new) THEN <<>>
        ELSE IF MappingEditorShown(old) THEN new.additionalGradeColumns
        ELSE new.excelData.mapping.mapping.gradeColumns]

\* handleAddGradeColumn(): the first header that is not used yet
handleAddGradeColumn(ix) ==
    LET m == ix.excelData.mapping.mapping
        usedHeaders == {m.id, m.name, m.grade}
                           \cup SeqToSet(ix.additionalGradeColumns)
        availableHeaders ==
            SelectSeq(ix.excelData.headers, LAMBDA h : h \notin usedHeaders)
    IN  IF Len(availableHeaders) > 0
        THEN LET updatedColumns ==
                     Append(ix.additionalGradeColumns, availableHeaders[1])
             IN  [handleMappingChange(ix, "gradeColumns", updatedColumns)
                     EXCEPT !.additionalGradeColumns = updatedColumns]
        ELSE ix

\* handleRemoveGradeColumn(index), index counted from 1
handleRemoveGradeColumn(ix, index) ==
    LET cols == ix.additionalGradeColumns
        updatedColumns ==
            SubSeq(cols, 1, index - 1) \o SubSeq(cols, index + 1, Len(cols))
    IN  [handleMappingChange(ix, "gradeColumns", updatedColumns)
            EXCEPT !.additionalGradeColumns = updatedColumns]

\* handleGradeColumnChange(index, value), index counted from 1
handleGradeColumnChange(ix, index, value) ==
    LET updatedColumns ==
            [ix.additionalGradeColumns EXCEPT ![index] = value]
    IN  [handleMappingChange(ix, "gradeColumns", updatedColumns)
            EXCEPT !.additionalGradeColumns = updatedColumns]

\* the headers offered by the Select of additional column index
ColumnOptions(ix, index) ==
    LET m == ix.excelData.mapping.mapping
        cols == ix.additionalGradeColumns
        others == {m.id, m.name, m.grade}
                      \cup {cols[i] : i \in (1..Len(cols)) \ {index}}
    IN  {h \in SeqToSet(ix.excelData.headers) :
            h = cols[index] \/ h \notin others}

\* a file is dropped on the upload area (disabled while isLoading):
\* handleFileUpload up to its await
StartUpload(files) ==
    \E f \in files :
        /\ page.tab = "process"
        /\ ~page.isLoading
        /\ page' = WithEditor(page,
                     [page EXCEPT !.isLoading = TRUE, !.file = f])
        /\ Render(page, page', lsGrades, lsHistory)
        /\ UNCHANGED <<onlyCommits, nCommits, headers, inferred, scan>>

\* the promise of parseExcelFile settles: the rest of handleFileUpload
FinishUpload ==
    /\ page.isLoading
    /\ page' = WithEditor(page,
                 handleFileUpload(page, parseExcelFile(page.file)))
    /\ Render(page, page', lsGrades, lsHistory)
    /\ UNCHANGED <<onlyCommits, nCommits, headers, inferred, scan>>

\* another sheet is picked in the sheet selector
HandleSheetChange ==
    \E i \in 1..Len(page.excelData.sheets) :
        /\ page.tab = "configure"
        /\ i # page.excelData.currentSheet
        /\ page' = WithEditor(page,
              handleSheetChange(page, page.excelData.sheets[i].name))
        /\ Render(page, page', lsGrades, lsHistory)
        /\ UNCHANGED <<onlyCommits, nCommits, headers, inferred, scan>>

\* another header is picked for the identifier, the name or the grade
HandleMappingChange ==
    \E field \in {"id", "name", "grade"} :
      \E value \in SeqToSet(page.excelData.headers) :
        /\ MappingEditorShown(page)
        /\ value # page.excelData.mapping.mapping[field]
        /\ page' = WithEditor(page, handleMappingChange(page, field, value))
        /\ Render(page, page', lsGrades, lsHistory)
        /\ UNCHANGED <<onlyCommits, nCommits, headers, inferred, scan>>

\* the Add Column button (disabled when headers.length <= 3 + the number
\* of additional columns) is pressed
AddGradeColumn ==
    /\ MappingEditorShown(page)
    /\ Len(page.excelData.headers) > 3 + Len(page.additionalGradeColumns)
    /\ page' = WithEditor(page, handleAddGradeColumn(page))
    /\ Render(page, page', lsGrades, lsHistory)
    /\ UNCHANGED <<onlyCommits, nCommits, headers, inferred, scan>>

\* the X button of an additional column is pressed
RemoveGradeColumn ==
    \E i \in 1..Len(page.additionalGradeColumns) :
        /\ MappingEditorShown(page)
        /\ page' = WithEditor(page, handleRemoveGradeColumn(page, i))
        /\ Render(page, page', lsGrades, lsHistory)
        /\ UNCHANGED <<onlyCommits, nCommits, headers, inferred, scan>>

\* another header is picked in the Select of an additional column
ChangeGradeColumn ==
    \E i \in 1..Len(page.additionalGradeColumns) :
      \E value \in ColumnOptions(page, i) :
        /\ MappingEditorShown(page)
        /\ value # page.additionalGradeColumns[i]
        /\ page' = WithEditor(page, handleGradeColumnChange(page, i, value))
        /\ Render(page, page', lsGrades, lsHistory)
        /\ UNCHANGED <<onlyCommits, nCommits, headers, inferred, scan>>

\* the Confirm button (disabled unless isComplete) is pressed
ConfirmMapping ==
    /\ MappingEditorShown(page)
    /\ isComplete(page.excelData.mapping.mapping)
    /\ page' = WithEditor(page, confirmMapping(page))
    /\ Render(page, page', lsGrades, lsHistory)
    /\ UNCHANGED <<onlyCommits, nCommits, headers, inferred, scan>>

\* "Start Over with New File" or "Clear Session"
ResetToUpload ==
    /\ page' = WithEditor(page, resetToUpload(page))
    /\ Render(page, page', NoGrades, <<>>)
    /\ UNCHANGED <<onlyCommits, nCommits, headers, inferred, scan>>

\* a tab trigger is pressed
SelectTab ==
    \E t \in {"process", "configure", "grades"} :
        /\ t # page.tab
        /\ page' = WithEditor(page, [page EXCEPT !.tab = t])
        /\ Render(page, page', lsGrades, lsHistory)
        /\ UNCHANGED <<onlyCommits, nCommits, headers, inferred, scan>>

\* the browser reloads the page: on mount the save effect (declared first)
\* writes the initial state over the persisted page state before the load
\* effect reads it, so the page starts empty; the keys of the grade table
\* are untouched
ReloadPage ==
    /\ page' = IndexInitial
    /\ Render(page, page', lsGrades, lsHistory)
    /\ UNCHANGED <<onlyCommits, nCommits, headers, inferred, scan>>

\* the page without the Grades tab: upload, sheet selection, mapping
NextIndex ==
    \/ StartUpload(Files)
    \/ FinishUpload
    \/ HandleSheetChange
    \/ HandleMappingChange
    \/ ConfirmMapping
    \/ ResetToUpload
    \/ SelectTab /\ page'.tab # "grades"
    \/ ReloadPage

SpecIndex == InitIndex /\ [][NextIndex]_vars

\* the workbook of the sessions that edit the mapping
MappingFiles == { FileOf(<<SheetB, SheetD>>) }

\* the page with the mapping editor: one workbook, its sheets selected in
\* any order, the mapping edited field by field and column by column
NextMapping ==
    \/ StartUpload(MappingFiles)
    \/ FinishUpload
    \/ HandleSheetChange
    \/ HandleMappingChange
    \/ AddGradeColumn
    \/ RemoveGradeColumn
    \/ ChangeGradeColumn
    \/ SelectTab /\ page'.tab # "grades"

SpecMapping == InitIndex /\ [][NextMapping]_vars

\* the workbook of the sessions that reach the grade table
SheetsFiles == { FileOf(<<SheetA, SheetB, SheetE>>) }

\* the page with the grade table: one workbook, its sheets selected and
\* confirmed in any order, grades committed, undone and redone on the
\* sheet that is shown
NextSheets ==
    \/ StartUpload(SheetsFiles)
    \/ FinishUpload
    \/ HandleSheetChange
    \/ ConfirmMapping
    \/ SelectTab
    \/ ReloadPage
    \/ ResetToUpload
    \/ TableShown(page) /\ StartEditing
    \/ TableShown(page) /\ HandleGradeChange
    \/ TableShown(page) /\ SaveGrade /\ nCommits' <= SheetCommits
    \/ TableShown(page) /\ KeyEscape
    \/ TableShown(page) /\ HandleUndo
    \/ TableShown(page) /\ HandleRedo

SpecSheets == InitIndex /\ [][NextSheets]_vars

-----------------------------------------------------------------------------
(* The grid readers applied to one worksheet, in the order of the first    *)
(* pass of parseExcelFile                                                  *)

InitGrid ==
    /\ \E g \in Grids : scan = [ScanIdle EXCEPT !.grid = g]
    /\ page = IndexInitial
    /\ students = <<>>
    /\ mapping = KeyMapping(NoMapping)
    /\ grades = NoGrades
    /\ editHistory = <<>>
    /\ currentHistoryIndex = -1
    /\ editingCell = NoCell
    /\ tempGrade = <<>>
    /\ toast = ""
    /\ lsGrades = NoGrades
    /\ lsHistory = <<>>
    /\ onlyCommits = TRUE
    /\ nCommits = 0
    /\ headers = <<>>
    /\ inferred = [pc |-> "idle", isNull |-> FALSE, mapping |-> NoMapping]

\* const processedData = processArabicExcelSheet(worksheet)
ProcessArabicExcelSheet ==
    /\ scan.pc = "idle"
    /\ scan' = [scan EXCEPT !.pc = "processed",
                            !.processed = processArabicExcelSheet(scan.grid)]
    /\ UNCHANGED <<headers, inferred, sessionVars, page>>

\* const sheetHeaders = extractSheetHeaders(worksheet)
ExtractSheetHeaders ==
    /\ scan.pc = "processed"
    /\ scan' = [scan EXCEPT !.pc = "extracted",
                            !.extracted = extractSheetHeaders(scan.grid)]
    /\ UNCHANGED <<headers, inferred, sessionVars, page>>

NextGrid ==
    \/ ProcessArabicExcelSheet
    \/ ExtractSheetHeaders

SpecGrid == InitGrid /\ [][NextGrid]_vars

-----------------------------------------------------------------------------
(* Claims about the edit history and the grade store                       *)

\* a grade value as the data model has it: an absent key and "" are both
\* the empty grade
GradeValue(v) == IF v = Undefined THEN EmptyString ELSE v

\* two stores hold the same grade in every cell
SameStore(g1, g2) ==
    \A id \in DOMAIN g1 \cup DOMAIN g2 : \A col \in Columns :
        GradeValue(Get(g1, id, col)) = GradeValue(Get(g2, id, col))

\* the step appended an entry to the history (a value-changing commit)
CommitStep == nCommits' = nCommits + 1

\* C1: the history never holds more than HistoryCap entries, and a commit
\* made while HistoryCap entries are held with the cursor at the last one
\* drops exactly the oldest entry, keeps the others in order followed by
\* the new entry, and leaves the cursor at the new last entry
C1_CapEvictsOldestCursorValid ==
    [][ /\ Len(editHistory') <= HistoryCap
        /\ ( /\ CommitStep
             /\ Len(editHistory) = HistoryCap
             /\ currentHistoryIndex = HistoryCap - 1 )
           => /\ Len(editHistory') = HistoryCap
              /\ SubSeq(editHistory', 1, HistoryCap - 1)
                    = SubSeq(editHistory, 2, HistoryCap)
              /\ currentHistoryIndex' = HistoryCap - 1 ]_vars

\* C2: the cursor is an integer in [-1, length - 1] in every reachable state
C2_CursorInRange ==
    /\ currentHistoryIndex >= -1
    /\ currentHistoryIndex <= Len(editHistory) - 1

\* a cell is being edited and the text in the input is valid and parses to
\* the value the cell holds
NoOpText ==
    /\ editingCell # NoCell
    /\ validateGrade(tempGrade)
    /\ GradeValue(Get(grades, editingCell.studentId, editingCell.column))
          = (IF tempGrade = <<>> THEN EmptyString ELSE parseFloat(tempGrade))

\* C3: a commit of a text whose parsed value equals the value the cell holds
\* closes the edit and leaves entries, cursor and store unchanged
C3_NoOpCommitChangesNothing ==
    [][ (NoOpText /\ SaveGrade)
           => /\ editingCell' = NoCell
              /\ editHistory' = editHistory
              /\ currentHistoryIndex' = currentHistoryIndex
              /\ grades' = grades ]_vars

\* C4: with an entry at the cursor, undo followed at once by redo leaves
\* the cell of that entry with the value it held before the undo, and the
\* cursor where it was
C4_UndoThenRedoRestores ==
    (currentHistoryIndex >= 0 /\ currentHistoryIndex < Len(editHistory))
    => LET e == editHistory[currentHistoryIndex + 1]
           u == handleUndo(grades, editHistory, currentHistoryIndex)
           r == handleRedo(u.grades, editHistory, u.currentHistoryIndex)
       IN  /\ Get(r.grades, e.studentId, e.column)
                 = Get(grades, e.studentId, e.column)
           /\ r.currentHistoryIndex = currentHistoryIndex

\* C5: in a state reached by commits only (clear and reload allowed),
\* jumpTo(length - 1) leaves every grade cell unchanged
C5_JumpToLastKeepsStore ==
    (onlyCommits /\ Len(editHistory) > 0)
    => SameStore(jumpToHistoryPoint(grades, editHistory, students, mapping,
                                    Len(editHistory) - 1).grades,
                 grades)

\* the store and cursor reached from cursor c by undo while above target
\* and redo while below it
RECURSIVE MoveTo(_, _, _, _)
MoveTo(g, h, c, target) ==
    IF c = target THEN [grades |-> g, currentHistoryIndex |-> c]
    ELSE IF c > target
    THEN LET u == handleUndo(g, h, c)
         IN  MoveTo(u.grades, h, u.currentHistoryIndex, target)
    ELSE LET r == handleRedo(g, h, c)
         IN  MoveTo(r.grades, h, r.currentHistoryIndex, target)

\* C6: for every index of the retained entries, jumpTo(index) gives the
\* store and cursor that repeated undo or redo to that index gives
C6_JumpEqualsSequentialMoves ==
    C2_CursorInRange
    => \A index \in 0..(Len(editHistory) - 1) :
          LET j == jumpToHistoryPoint(grades, editHistory, students, mapping,
                                      index)
              s == MoveTo(grades, editHistory, currentHistoryIndex, index)
          IN  /\ SameStore(j.grades, s.grades)
              /\ j.currentHistoryIndex = s.currentHistoryIndex

\* C7: undo right after a value-changing commit restores the cell to the
\* value it held before the commit, whatever that value was, and redo
\* re-applies the committed value
C7_UndoRestoresPriorValue ==
    (editingCell # NoCell /\ validateGrade(tempGrade))
    => LET id == editingCell.studentId
           col == editingCell.column
           res == saveGrade(grades, editHistory, currentHistoryIndex,
                            editingCell, students, mapping, id, col, tempGrade)
           u == handleUndo(res.grades, res.editHistory,
                           res.currentHistoryIndex)
           r == handleRedo(u.grades, res.editHistory, u.currentHistoryIndex)
       IN  res.appended
           => /\ GradeValue(Get(u.grades, id, col))
                    = GradeValue(Get(grades, id, col))
              /\ Get(r.grades, id, col) = Get(res.grades, id, col)

\* the text in the input is neither empty nor parseable as a number
InvalidText ==
    /\ editingCell # NoCell
    /\ tempGrade # <<>>
    /\ parseFloat(tempGrade) = NaN

\* C8: a commit of a text that is neither empty nor parseable as a number
\* fails with a validation error and changes neither store, history,
\* cursor nor what is persisted; saveGrade leaves the edit open with its
\* text (Tab then moves on to the next cell, as it does after any commit)
C8_InvalidCommitChangesNothing ==
    [][ (InvalidText /\ (SaveGrade \/ KeyTab))
           => /\ toast' = "Invalid Grade"
              /\ grades' = grades
              /\ editHistory' = editHistory
              /\ currentHistoryIndex' = currentHistoryIndex
              /\ lsGrades' = lsGrades
              /\ lsHistory' = lsHistory
              /\ editingCell' # NoCell
              /\ SaveGrade => (editingCell' = editingCell
                               /\ tempGrade' = tempGrade) ]_vars

\* C8 witness: a commit of an unparseable text has just failed and the edit
\* is still open with that text
C8_Witness ==
    /\ InvalidText
    /\ toast = "Invalid Grade"

\* C9: the exported value of every row and mapped grade column is the
\* store's value whenever the store holds one (also "" or 0), and only
\* otherwise the original row value, or "" when the row has none
C9_ExportPrefersStore ==
    LET export == getExportData(grades, students, mapping)
    IN  \A r \in 1..Len(students) :
          \A col \in SeqToSet(getAllGradeColumns(mapping)) :
            LET held == Get(grades, students[r].id, col)
            IN  export[r].cells[col] =
                  IF held # Undefined THEN held
                  ELSE GradeValue(students[r].cells[col])

-----------------------------------------------------------------------------
(* Claims about the structure inferrer                                     *)

\* C10: the additional grade columns of an inferred mapping are pairwise
\* distinct and none is the identifier, name or primary grade column
C10_AdditionalColumnsDisjoint ==
    (inferred.pc # "idle" /\ ~inferred.isNull)
    => LET m == inferred.mapping
           extra == m.gradeColumns
       IN  /\ \A i, j \in 1..Len(extra) : i # j => extra[i] # extra[j]
           /\ \A i \in 1..Len(extra) :
                 extra[i] \notin {m.id, m.name, m.grade}

\* the pattern categories a header matches
MatchesId(h) == IdPattern(toLowerCase(h))
MatchesName(h) == NamePattern(toLowerCase(h))
MatchesGrade(h) == GradePattern(toLowerCase(h))

\* exactly one header of hs matches the identifier category only, exactly
\* one the name category only, exactly one the grade category only, and
\* every other header matches no category
Unambiguous(hs) ==
    LET onlyId == {i \in 1..Len(hs) :
                     MatchesId(hs[i]) /\ ~MatchesName(hs[i])
                     /\ ~MatchesGrade(hs[i])}
        onlyName == {i \in 1..Len(hs) :
                       MatchesName(hs[i]) /\ ~MatchesId(hs[i])
                       /\ ~MatchesGrade(hs[i])}
        onlyGrade == {i \in 1..Len(hs) :
                        MatchesGrade(hs[i]) /\ ~MatchesId(hs[i])
                        /\ ~MatchesName(hs[i])}
    IN  /\ Cardinality(onlyId) = 1
        /\ Cardinality(onlyName) = 1
        /\ Cardinality(onlyGrade) = 1
        /\ \A i \in (1..Len(hs)) \ (onlyId \cup onlyName \cup onlyGrade) :
              ~MatchesId(hs[i]) /\ ~MatchesName(hs[i]) /\ ~MatchesGrade(hs[i])

\* every reordering of hs
Reorderings(hs) ==
    {[i \in 1..Len(hs) |-> hs[sigma[i]]] :
        sigma \in {f \in [1..Len(hs) -> 1..Len(hs)] :
                     \A i, j \in 1..Len(hs) : i # j => f[i] # f[j]}}

\* C11: for a header list with exactly one identifier-only, one name-only
\* and one grade-only header and no other matching header, every
\* permutation of the list gives the same identifier, name and primary
\* grade headers
C11_PermutationInvariance ==
    (inferred.pc = "detectHeaders" /\ Unambiguous(headers))
    => \A p \in Reorderings(headers) :
          LET m == detectHeaders(p)
          IN  /\ m.id = inferred.mapping.id
              /\ m.name = inferred.mapping.name
              /\ m.grade = inferred.mapping.grade

\* C11 witness: an unambiguous list of four headers that starts with its
\* grade header has been resolved, the identifier not being the first header
C11_Witness ==
    /\ inferred.pc = "detectHeaders"
    /\ Unambiguous(headers)
    /\ Len(headers) = 4
    /\ MatchesGrade(headers[1])
    /\ MatchesId(inferred.mapping.id)
    /\ MatchesName(inferred.mapping.name)
    /\ inferred.mapping.grade = headers[1]

\* no header of hs matches a pattern category or a shape fallback
NoHeaderMatches(hs) ==
    \A i \in 1..Len(hs) :
        /\ ~MatchesId(hs[i]) /\ ~MatchesName(hs[i]) /\ ~MatchesGrade(hs[i])
        /\ ~IsNumeric(hs[i]) /\ ~HasEmptyMarker(hs[i])
        /\ ~HasArabicLetter(hs[i])

\* C12 as stated: with no header matching anything and at least three
\* headers, identifier, name and primary grade are the first three headers
\* and the additional grade columns are all headers from the fourth on
C12_PositionalFallbackAllRest ==
    (inferred.pc = "detectHeaders" /\ NoHeaderMatches(headers)
        /\ Len(headers) >= 3)
    => inferred.mapping =
          [id |-> headers[1], name |-> headers[2], grade |-> headers[3],
           gradeColumns |-> SubSeq(headers, 4, Len(headers))]

\* C12 amended: the additional grade columns are the headers from the
\* fourth on, in order, without those equal to the identifier or the name
\* header
C12_PositionalFallback ==
    (inferred.pc = "detectHeaders" /\ NoHeaderMatches(headers)
        /\ Len(headers) >= 3)
    => inferred.mapping =
          [id |-> headers[1], name |-> headers[2], grade |-> headers[3],
           gradeColumns |->
               SelectSeq(SubSeq(headers, 4, Len(headers)),
                         LAMBDA h : h # headers[1] /\ h # headers[2])]

\* C12 witness: Column 1 .. Column 4 resolved positionally
C12_Witness ==
    /\ inferred.pc = "detectHeaders"
    /\ headers = <<H_Column1, H_Column2, H_Column3, H_Column4>>
    /\ inferred.mapping.grade = H_Column3
    /\ inferred.mapping.gradeColumns = <<H_Column4>>

\* C13: an empty sheet with at least three headers, in a workbook with a
\* populated sheet, gets identifier, name and primary grade all assigned
C13_EmptySheetMappingResolved ==
    (inferred.pc = "enhanceHeaderMappingForEmptySheet" /\ ~inferred.isNull
        /\ Len(headers) >= 3)
    => /\ inferred.mapping.id # <<>>
       /\ inferred.mapping.name # <<>>
       /\ inferred.mapping.grade # <<>>

\* C27: the cursor points at the last applied entry in every reachable
\* state, also after a reload that follows undos: whenever the cursor is
\* >= 0, the store value of the cell named by entries[cursor] is
\* entries[cursor].newValue.
C27_CursorAtLastAppliedEntry ==
    (currentHistoryIndex >= 0 /\ currentHistoryIndex < Len(editHistory)) =>
        LET e == editHistory[currentHistoryIndex + 1]
        IN  GradeValue(Get(grades, e.studentId, e.column))
                = GradeValue(e.newValue)

-----------------------------------------------------------------------------
(* Claims about ingestion and about the confirmation of the mapping        *)

\* the file is one that ingestion has to refuse: no bytes, an extension
\* other than xlsx / xls, a container that cannot be read, or no sheets
MustFail(file) ==
    \/ file.size <= 0
    \/ toLowerCase(file.ext) \notin {Xlsx, Xls}
    \/ ~file.readable
    \/ Len(file.sheets) = 0

\* no workbook state is exposed
NothingExposed(data) ==
    /\ data.sheets = <<>>
    /\ data.currentSheet = 0
    /\ data.headers = <<>>
    /\ data.mapping.isNull

\* every sheet of the file is in the exposed workbook, in order, and a
\* current sheet, its headers and a mapping are set
WholeWorkbook(data, file) ==
    /\ Len(data.sheets) = Len(file.sheets)
    /\ \A i \in 1..Len(file.sheets) :
          /\ data.sheets[i].name = file.sheets[i].name
          /\ data.sheets[i].data = file.sheets[i].data
          /\ data.sheets[i].headers = file.sheets[i].headers
    /\ data.currentSheet \in 1..Len(data.sheets)
    /\ ~data.mapping.isNull

\* C14: ingestion is atomic.  When the ingestion of a file ends, a file
\* with no bytes, with an extension outside {xlsx, xls}, with an unreadable
\* container or with zero sheets has produced an error; after an error no
\* workbook state is exposed (sheets empty, current sheet none, headers
\* empty, mapping none); otherwise the exposed workbook has every sheet of
\* the file, never only some of them.
C14_IngestionAtomic ==
    [][FinishUpload =>
          /\ MustFail(page.file) => page'.toast = "Error"
          /\ page'.toast = "Error" => NothingExposed(page'.excelData)
          /\ page'.toast # "Error" =>
                WholeWorkbook(page'.excelData, page.file)
          /\ ~page'.isLoading]_vars

\* a failed ingestion has ended in a session that had a confirmed workbook
C14_Witness ==
    /\ page.toast = "Error"
    /\ ~page.isLoading
    /\ page.mappingConfirmed
    /\ NothingExposed(page.excelData)

\* C17: an incomplete mapping blocks confirmation.  After any sequence of
\* ingest, select-sheet, remap-field and confirm-mapping events, grade
\* entry and export are enabled (the mapping-confirmed state) only if the
\* current mapping has identifier, name and primary grade all resolved.
C17_ConfirmedOnlyIfComplete ==
    GradeEntryEnabled(page) => isComplete(page.excelData.mapping.mapping)

\* C26: a successful ingestion returns exactly one sheet per workbook
\* sheet, in workbook order, and keeps the sheets without rows together
\* with their header labels; the current sheet is the first sheet with at
\* least one row, or the first sheet when every sheet has zero rows.
C26_OneSheetPerWorkbookSheet ==
    [][(FinishUpload /\ page'.toast = "File Uploaded") =>
          LET sheets == page'.excelData.sheets
              given == page.file.sheets
              withRows == {i \in 1..Len(given) : Len(given[i].data) > 0}
          IN  /\ Len(sheets) = Len(given)
              /\ \A i \in 1..Len(given) :
                    /\ sheets[i].name = given[i].name
                    /\ sheets[i].data = given[i].data
                    /\ sheets[i].headers = given[i].headers
              /\ withRows # {} =>
                    /\ page'.excelData.currentSheet \in withRows
                    /\ \A i \in withRows :
                          page'.excelData.currentSheet <= i
              /\ withRows = {} => page'.excelData.currentSheet = 1]_vars

\* a workbook whose first sheet has a header row and no rows has just been
\* ingested: the sheet is kept and the second sheet is the current one
C26_Witness ==
    /\ page.toast = "File Uploaded"
    /\ ~page.isLoading
    /\ Len(page.excelData.sheets) = 2
    /\ page.excelData.sheets[1].data = <<>>
    /\ Len(page.excelData.sheets[1].headers) > 0
    /\ page.excelData.currentSheet = 2

-----------------------------------------------------------------------------
(* Claims about the session across sheets                                  *)

\* entry j of the history is the latest commit to its cell
LatestCommit(h, j) ==
    \A k \in (j + 1)..Len(h) :
        h[k].studentId # h[j].studentId \/ h[k].column # h[j].column

MappedGradeColumns(m) ==
    {c \in {m.grade} \cup SeqToSet(m.gradeColumns) : c # ""}

\* C15: every exported row contains the identifier column, the name column
\* and every mapped grade column, primary and additional; for a sheet with
\* rows the export has one row per sheet row in sheet order, and for a
\* sheet with zero rows it is exactly one template row with all those
\* columns blank.
C15_ExportHasEveryMappedColumn ==
    TableShown(page) =>
        LET data == getExportData(grades, students, mapping)
        IN  /\ \A r \in 1..Len(data) :
                  /\ mapping.id \in ExportKeys(data[r], mapping)
                  /\ mapping.name \in ExportKeys(data[r], mapping)
                  /\ MappedGradeColumns(mapping)
                        \subseteq ExportKeys(data[r], mapping)
            /\ Len(students) > 0 =>
                  /\ Len(data) = Len(students)
                  /\ \A r \in 1..Len(students) :
                        /\ data[r].id = students[r].id
                        /\ data[r].name = students[r].name
            /\ Len(students) = 0 =>
                  /\ Len(data) = 1
                  /\ data[1].id = ""
                  /\ data[1].name = ""
                  /\ \A c \in DOMAIN data[1].cells :
                        data[1].cells[c] = EmptyString

\* the table is shown on a sheet without rows whose mapping has an
\* additional grade column
C15_Witness ==
    /\ TableShown(page)
    /\ Len(students) = 0
    /\ mapping.grade # ""
    /\ Len(mapping.gradeColumns) > 0

\* C21: seeding.  When the grade table is mounted, the store has exactly
\* the student identifiers of the sheet; each cell holds the persisted value
\* of that identifier and column when there is one, and otherwise the row's
\* value when the column is a mapped grade column; persisted values of
\* identifiers absent from the sheet are not added.
C21_SeedMergesPersisted ==
    [][(~TableShown(page) /\ TableShown(page')) =>
          /\ DOMAIN grades' = StudentIds(students')
          /\ \A id \in StudentIds(students') : \A c \in Columns :
                grades'[id][c] =
                    IF id \in DOMAIN lsGrades /\ lsGrades[id][c] # Undefined
                    THEN lsGrades[id][c]
                    ELSE IF c \in MappedGradeColumns(mapping')
                    THEN RowOf(students', id).cells[c]
                    ELSE Undefined]_vars

\* the table has been mounted on a sheet after a grade was committed and
\* persisted for a student of another sheet: the store has the students of
\* the shown sheet only
C21_Witness ==
    /\ TableShown(page)
    /\ Len(students) > 0
    /\ DOMAIN grades = StudentIds(students)
    /\ \E j \in 1..Len(editHistory) :
          editHistory[j].studentId \notin StudentIds(students)

\* C29: in every state in which the grade table is shown, also after
\* another sheet was selected or another workbook ingested without a reset,
\* every history entry and every key of the grade store names a student
\* identifier of the sheet that is displayed, so that undo, redo and jump
\* never write a grade for a student who is not in that sheet.
C29_HistoryAndStoreOfShownSheet ==
    TableShown(page) =>
        /\ \A j \in 1..Len(editHistory) :
              editHistory[j].studentId \in StudentIds(students)
        /\ DOMAIN grades \subseteq StudentIds(students)

-----------------------------------------------------------------------------
(* Claims about the mapping editor                                         *)

\* the column names a mapping refers to
ReferencedColumns(m) ==
    {h \in {m.id, m.name, m.grade} \cup SeqToSet(m.gradeColumns) : h # <<>>}

\* C22: after any sequence of ingest, select-sheet, add / remove / change
\* additional grade column and remap-field actions, every column name the
\* current mapping refers to (identifier, name, primary grade and each
\* additional grade column) is a header of the currently selected sheet.
C22_MappingColumnsAreHeaders ==
    (page.excelData.currentSheet # 0 /\ ~page.excelData.mapping.isNull) =>
        ReferencedColumns(page.excelData.mapping.mapping) \subseteq
            SeqToSet(SheetHeaders(
                page.excelData.sheets[page.excelData.currentSheet]))

\* the roles of a mapping in order: identifier, name, primary grade and
\* the additional grade columns
Roles(m) == <<m.id, m.name, m.grade>> \o m.gradeColumns

\* no two roles name the same header
PairwiseDistinct(m) ==
    \A i, j \in 1..Len(Roles(m)) : i # j => Roles(m)[i] # Roles(m)[j]

\* C23: user remapping preserves uniqueness.  From a mapping whose
\* identifier, name, primary grade and additional grade columns are
\* pairwise distinct, no remap-field, add-column, change-column or
\* remove-column action produces a mapping in which two roles name the
\* same header.
C23_RemapKeepsRolesDistinct ==
    [][((HandleMappingChange \/ AddGradeColumn \/ ChangeGradeColumn
            \/ RemoveGradeColumn)
        /\ PairwiseDistinct(page.excelData.mapping.mapping))
       => PairwiseDistinct(page'.excelData.mapping.mapping)]_vars

-----------------------------------------------------------------------------
(* Claims about the grid readers                                           *)

\* the rows of the worksheet
RowIndices(g) == g.start..LastRow(g)

\* row R comes first in the order: match count descending, row index
\* ascending, among the rows with a match
IsBestHeaderRow(g, R) ==
    /\ R \in RowIndices(g)
    /\ arabicMatchCount(g, R) > 0
    /\ \A R2 \in RowIndices(g) :
          \/ arabicMatchCount(g, R2) < arabicMatchCount(g, R)
          \/ arabicMatchCount(g, R2) = arabicMatchCount(g, R) /\ R <= R2

\* the header labels attached to the sheet are those of the best row
LabelsFromBestRow ==
    scan.pc = "extracted" =>
        \A R \in RowIndices(scan.grid) :
            IsBestHeaderRow(scan.grid, R) =>
                /\ scan.extracted.headerRowIndex = R
                /\ scan.extracted.headers = rowHeaders(scan.grid, R)

\* C24: header-row discovery picks the row with the highest keyword-match
\* count greater than zero, the lowest row index among equal counts; both
\* the header labels attached to the sheet and the header row used for row
\* extraction are taken from that row.
C24_BestHeaderRowForLabelsAndRows ==
    /\ LabelsFromBestRow
    /\ scan.pc = "extracted" =>
          \A R \in RowIndices(scan.grid) :
              IsBestHeaderRow(scan.grid, R) => scan.processed.keysRow = R

\* row R holds, in column C, a number above 1000 followed by a string with
\* whitespace, and no earlier row and no earlier column of R does
IsFirstStudentCell(g, R, C) ==
    /\ R \in RowIndices(g)
    /\ IsStudentRowAt(g, R, C)
    /\ \A C2 \in 0..(C - 1) : ~IsStudentRowAt(g, R, C2)
    /\ \A R2 \in g.start..(R - 1) : \A C2 \in 0..(GridColumns - 1) :
          ~IsStudentRowAt(g, R2, C2)

\* C25: content-shape fallback.  When no row qualifies as a header row by
\* keywords, the first row that holds a number above 1000 whose right-hand
\* neighbour is a string with whitespace is a data row: its numeric column
\* is the identifier column, the neighbour the name column, the header row
\* index is that row's index minus one even when that is out of range, and
\* no row at or below that row is used as the header.
C25_ContentShapeFallback ==
    (/\ scan.pc # "idle"
     /\ \A R \in RowIndices(scan.grid) : ~hasHeaderInfo(scan.grid, R))
    => \A R \in RowIndices(scan.grid) : \A C \in 0..(GridColumns - 1) :
          IsFirstStudentCell(scan.grid, R, C) =>
              /\ scan.processed.studentIdColumnIndex = C
              /\ scan.processed.studentNameColumnIndex = C + 1
              /\ scan.processed.headerRowIndex = R - 1
              /\ scan.processed.keysRow < R

\* C28: for every list of distinct header strings, the identifier, name
\* and primary grade columns of the mapping the structure inferrer returns
\* are pairwise distinct whenever they are assigned.
C28_InferredRolesDistinct ==
    (/\ inferred.pc # "idle"
     /\ ~inferred.isNull
     /\ headers \in DistinctHeaderLists)
    => LET m == inferred.mapping
       IN  /\ (m.id # <<>> /\ m.name # <<>>) => m.id # m.name
           /\ (m.id # <<>> /\ m.grade # <<>>) => m.id # m.grade
           /\ (m.name # <<>> /\ m.grade # <<>>) => m.name # m.grade

-----------------------------------------------------------------------------
(* Claims about undo, redo, the branch cut and clear                       *)

NothingToUndo == "Undo: No more actions to undo"
NothingToRedo == "Redo: No more actions to redo"

\* C18: in every reachable state undo either applies the entry at the
\* cursor or reports nothing to undo, redo either applies the entry after
\* the cursor or reports nothing to redo; reporting changes neither store
\* nor cursor, and the entry read always exists
C18_HistoryOperationsNeverFail ==
    LET u == handleUndo(grades, editHistory, currentHistoryIndex)
        r == handleRedo(grades, editHistory, currentHistoryIndex)
    IN  /\ u.toast \in {"Undo: Restored", NothingToUndo}
        /\ u.toast = "Undo: Restored"
              => (currentHistoryIndex + 1) \in DOMAIN editHistory
        /\ u.toast = NothingToUndo
              => /\ u.grades = grades
                 /\ u.currentHistoryIndex = currentHistoryIndex
        /\ r.toast \in {"Redo: Re-applied", NothingToRedo}
        /\ r.toast = "Redo: Re-applied"
              => (currentHistoryIndex + 2) \in DOMAIN editHistory
        /\ r.toast = NothingToRedo
              => /\ r.grades = grades
                 /\ r.currentHistoryIndex = currentHistoryIndex

C20_ClearResetsHistoryOnly ==
    [][ ClearHistory
           => /\ editHistory' = <<>>
              /\ currentHistoryIndex' = -1
              /\ lsHistory' = <<>>
              /\ grades' = grades
              /\ lsGrades' = lsGrades
              /\ handleUndo(grades', editHistory',
                            currentHistoryIndex').toast = NothingToUndo
              /\ handleRedo(grades', editHistory',
                            currentHistoryIndex').toast = NothingToRedo
       ]_vars

\* C20 witness: the history has been cleared while the store still holds a
\* committed value that differs from the sheet's
C20_Witness ==
    /\ toast = "History Cleared"
    /\ editHistory = <<>>
    /\ currentHistoryIndex = -1
    /\ lsHistory = <<>>
    /\ nCommits > 0
    /\ \E r \in 1..Len(students) : \E col \in Columns :
          GradeValue(Get(grades, students[r].id, col))
             # GradeValue(students[r].cells[col])

\* the text in the input is valid and its parsed value differs from the
\* value the cell holds
ValueChangingText ==
    /\ editingCell # NoCell
    /\ validateGrade(tempGrade)
    /\ GradeValue(Get(grades, editingCell.studentId, editingCell.column))
          # (IF tempGrade = <<>> THEN EmptyString ELSE parseFloat(tempGrade))

\* an undo that applies the entry at the cursor
UndoStep ==
    /\ currentHistoryIndex >= 0
    /\ currentHistoryIndex < Len(editHistory)
    /\ HandleUndo

\* a redo that applies the entry after the cursor
RedoStep ==
    /\ currentHistoryIndex < Len(editHistory) - 1
    /\ HandleRedo

\* between this state and the next the grade held in cell (id, col)
\* changes, and no other cell of the store and no row of the sheet does
ExactlyCellChanges(id, col) ==
    /\ GradeValue(Get(grades', id, col)) # GradeValue(Get(grades, id, col))
    /\ \A i \in DOMAIN grades \cup DOMAIN grades' : \A c \in Columns :
          (i # id \/ c # col) => Get(grades', i, c) = Get(grades, i, c)
    /\ students' = students

\* C30: a value-changing commit, an undo and a redo each change exactly one
\* cell of the grade store, the cell (studentId, column) named by the edit
\* or by the history entry that is applied; every other cell of the store
\* and every row of the ingested sheet stay as they were.
C30_OneCellPerMutation ==
    [][ /\ (ValueChangingText /\ (SaveGrade \/ KeyTab))
            => ExactlyCellChanges(editingCell.studentId, editingCell.column)
        /\ UndoStep
            => ExactlyCellChanges(
                   editHistory[currentHistoryIndex + 1].studentId,
                   editHistory[currentHistoryIndex + 1].column)
        /\ RedoStep
            => ExactlyCellChanges(
                   editHistory[currentHistoryIndex + 2].studentId,
                   editHistory[currentHistoryIndex + 2].column)
      ]_vars

=============================================================================
